---- MODULE Spec2Model ----
(***************************************************************************)
(* Model of the wireviz-doc document model and parser                      *)
(* (src/wireviz_doc/models/*.py, src/wireviz_doc/parser.py).               *)
(*                                                                         *)
(* Encoding of YAML values:                                                *)
(*   - a mapping read only through .get()/[] is a TLA+ record whose        *)
(*     DOMAIN is the set of keys present;                                  *)
(*   - a scalar is [int |-> n] or [str |-> s], a list is [list |-> seq],   *)
(*     a mapping that the code iterates with .items() is                   *)
(*     [map |-> <<[key |-> k, val |-> v], ...>>] (items in file order);    *)
(*   - Python None is the string None.                                     *)
(* A constructor or parsing function returns [ok |-> TRUE, val |-> v] or   *)
(* [ok |-> FALSE, err |-> e] where e is the exception raised.              *)
(***************************************************************************)
EXTENDS Integers, Sequences, FiniteSets, TLC

VARIABLES raw, pc, result, steps, derived, group, bom, returned

vars == <<raw, pc, result, steps, derived, group, bom, returned>>

(***************************************************************************)
(* Bounds of the explored inputs.                                          *)
(***************************************************************************)
MaxWires == 2
MaxConns == 2
MaxPins == 2

None == "None"
\* None where the other values are character sequences
NoneSeq == <<"None">>

\* None where the other values are scalars
NoneV == [none |-> TRUE]

IntV(n) == [int |-> n]
StrV(s) == [str |-> s]
ListV(q) == [list |-> q]
MapV(items) == [map |-> items]

IsInt(v) == "int" \in DOMAIN v
IsStr(v) == "str" \in DOMAIN v
IsList(v) == "list" \in DOMAIN v
IsMap(v) == "map" \in DOMAIN v
IsNode(v) == IsInt(v) \/ IsStr(v) \/ IsList(v) \/ IsMap(v)

\* dict.get(k, default)
Get(d, k, default) == IF k \in DOMAIN d THEN d[k] ELSE default

Ok(v) == [ok |-> TRUE, val |-> v]
Raise(e) == [ok |-> FALSE, err |-> e]

\* One entry of pydantic's ValidationError.errors()
FieldError(loc, msg) == [loc |-> loc, msg |-> msg, lines |-> <<>>]

ValidationError(errs) == [type |-> "ValidationError", errors |-> errs]

TypeError(msg) == [type |-> "TypeError", msg |-> msg]

\* int(v) for the strings of the model that Python's int() accepts
NumericStrings == [s \in {"-1", "0", "1", "2", "3"} |->
                     CASE s = "-1" -> -1
                       [] s = "0" -> 0
                       [] s = "1" -> 1
                       [] s = "2" -> 2
                       [] s = "3" -> 3]

RequiredStringErrors(loc, v) ==
  IF v = "" THEN <<FieldError(loc, "cannot be empty")>> ELSE <<>>

(***************************************************************************)
(* models/connections.py: Connection                                       *)
(***************************************************************************)
\* normalize_pin: the ValueError raised for a numeric string below 1 is
\* raised inside the try block and caught by its own except clause.
normalize_pin(v) ==
  IF IsInt(v)
  THEN IF v.int < 1 THEN Raise("Pin numbers must be positive (1-based)")
       ELSE Ok(v)
  ELSE IF IsStr(v)
  THEN IF v.str = "" THEN Raise("Pin label cannot be empty")
       ELSE IF v.str \in DOMAIN NumericStrings
       THEN IF NumericStrings[v.str] < 1 THEN Ok(v)
            ELSE Ok(IntV(NumericStrings[v.str]))
       ELSE Ok(v)
  ELSE Raise("Invalid pin specification")

PinErrors(loc, v) ==
  IF normalize_pin(v).ok THEN <<>> ELSE <<FieldError(loc, normalize_pin(v).err)>>

\* core: int = Field(..., ge=0)
CoreErrors(v) ==
  IF ~IsInt(v) THEN <<FieldError("core", "Input should be a valid integer")>>
  ELSE IF v.int < 0 THEN <<FieldError("core", "Input should be greater than or equal to 0")>>
  ELSE <<>>

\* strip_optional_strings
strip_optional_strings(v) == IF v = None \/ v = "" THEN None ELSE v

\* Connection(**kw): kw is the record of keyword arguments.  The model has
\* no pair_group field and ignores extra keywords (pydantic default).
Connection(kw) ==
  LET errs == RequiredStringErrors("from_connector", kw.from_connector)
              \o PinErrors("from_pin", kw.from_pin)
              \o RequiredStringErrors("cable", kw.cable)
              \o CoreErrors(kw.core)
              \o RequiredStringErrors("to_connector", kw.to_connector)
              \o PinErrors("to_pin", kw.to_pin)
  IN IF errs # <<>> THEN Raise(ValidationError(errs))
     ELSE Ok([from_connector |-> kw.from_connector,
              from_pin |-> normalize_pin(kw.from_pin).val,
              cable |-> kw.cable,
              core |-> kw.core.int,
              to_connector |-> kw.to_connector,
              to_pin |-> normalize_pin(kw.to_pin).val,
              notes |-> strip_optional_strings(Get(kw, "notes", None)),
              signal_name |-> strip_optional_strings(Get(kw, "signal_name", None)),
              wire_label |-> strip_optional_strings(Get(kw, "wire_label", None))])

(***************************************************************************)
(* Strings that the code inspects character by character (colour codes)    *)
(* are sequences of one-character strings.                                 *)
(***************************************************************************)
Lower == [c \in {"b", "k", "r", "d", "u", "w", "h"} |->
            CASE c = "b" -> "B" [] c = "k" -> "K" [] c = "r" -> "R"
              [] c = "d" -> "D" [] c = "u" -> "U" [] c = "w" -> "W"
              [] c = "h" -> "H"]

Letters == {"B", "K", "R", "D", "U", "W", "H", "X"}
Digits == {"0", "1", "2"}

\* str.upper()
Upper(s) == [i \in DOMAIN s |-> IF s[i] \in DOMAIN Lower THEN Lower[s[i]] ELSE s[i]]

\* str.strip()
RECURSIVE LStrip(_)
LStrip(s) == IF s # <<>> /\ Head(s) = " " THEN LStrip(Tail(s)) ELSE s

RECURSIVE RStrip(_)
RStrip(s) == IF s # <<>> /\ s[Len(s)] = " " THEN RStrip(SubSeq(s, 1, Len(s) - 1)) ELSE s

Strip(s) == RStrip(LStrip(s))

Contains(s, c) == \E i \in DOMAIN s : s[i] = c

\* index of the first occurrence of c in s from position i on, Len(s)+1 if none
RECURSIVE Find(_, _, _)
Find(s, c, i) == IF i > Len(s) THEN Len(s) + 1
                 ELSE IF s[i] = c THEN i ELSE Find(s, c, i + 1)

\* s.split("-")[0] and s.split("-")[1] for a string containing "-"
SplitFirst(s) == SubSeq(s, 1, Find(s, "-", 1) - 1)
SplitSecond(s) == SubSeq(s, Find(s, "-", 1) + 1, Find(s, "-", Find(s, "-", 1) + 1) - 1)

IsAlpha(s) == s # <<>> /\ \A i \in DOMAIN s : s[i] \in Letters
IsDigits(s) == s # <<>> /\ \A i \in DOMAIN s : s[i] \in Digits

\* a variant of the pattern with a single digit: ^([A-Z]{2})(\d)$
NumberedMatchOneDigit(s) == Len(s) = 3 /\ IsAlpha(SubSeq(s, 1, 2)) /\ IsDigits(SubSeq(s, 3, 3))

\* re.match(r"^([A-Z]{2})(\d+)$", s)
NumberedMatch(s) == Len(s) >= 3 /\ IsAlpha(SubSeq(s, 1, 2)) /\ IsDigits(SubSeq(s, 3, Len(s)))

\* the members of STANDARD_COLOR_CODES that the model's alphabet can spell
STANDARD_COLOR_CODES == {<<"B", "K">>, <<"R", "D">>, <<"B", "U">>, <<"W", "H">>}

\* ColorSpec(display_color, base_color, stripe_color) with normalize_color_case
ColorSpec(display, base, stripe) ==
  [display_color |-> Strip(display),
   base_color |-> Upper(Strip(base)),
   stripe_color |-> IF stripe = NoneSeq THEN NoneSeq ELSE Upper(Strip(stripe))]

ColorSpec_parse(color_str) ==
  IF color_str = <<>> THEN Raise("Invalid color specification")
  ELSE LET s == Upper(Strip(color_str)) IN
    IF s = <<>> THEN Raise("Color specification cannot be empty")
    ELSE IF Contains(s, "-") THEN Ok(ColorSpec(s, SplitFirst(s), SplitSecond(s)))
    ELSE IF NumberedMatch(s) THEN Ok(ColorSpec(s, SubSeq(s, 1, 2), NoneSeq))
    ELSE IF Len(s) = 4 /\ SubSeq(s, 1, 2) \in STANDARD_COLOR_CODES
                        /\ SubSeq(s, 3, 4) \in STANDARD_COLOR_CODES
         THEN Ok(ColorSpec(s, SubSeq(s, 1, 2), SubSeq(s, 3, 4)))
    ELSE IF Len(s) \in 2..3 /\ IsAlpha(s) THEN Ok(ColorSpec(s, s, NoneSeq))
    ELSE Ok(ColorSpec(s, s, NoneSeq))

\* a variant of __str__ that returns the base colour
ColorSpec_str_base(color) == color.base_color

\* ColorSpec.__str__
ColorSpec_str(color) == color.display_color

(***************************************************************************)
(* models/base.py: Quantity; models/parts.py: Part, AlternatePart          *)
(***************************************************************************)
\* Quantity(value, unit); values are kept in tenths (2.5 is 25)
Quantity(value, unit) ==
  IF unit = "" THEN Raise(ValidationError(<<FieldError("unit", "Unit cannot be empty")>>))
  ELSE Ok([value |-> value, unit |-> unit])

AlternatePart(kw) ==
  LET errs == RequiredStringErrors("manufacturer", kw.manufacturer)
              \o RequiredStringErrors("mpn", kw.mpn)
  IN IF errs # <<>> THEN Raise(ValidationError(errs))
     ELSE Ok([manufacturer |-> kw.manufacturer, mpn |-> kw.mpn])

\* the required, non-empty string fields shared by Part, Connector and Cable
IdentityErrors(kw) ==
  RequiredStringErrors("id", kw.id)
  \o RequiredStringErrors("primary_pn", kw.primary_pn)
  \o RequiredStringErrors("manufacturer", kw.manufacturer)
  \o RequiredStringErrors("mpn", kw.mpn)
  \o RequiredStringErrors("description", kw.description)

Part(kw) ==
  LET errs == IdentityErrors(kw)
  IN IF errs # <<>> THEN Raise(ValidationError(errs))
     ELSE Ok([id |-> kw.id, primary_pn |-> kw.primary_pn,
              manufacturer |-> kw.manufacturer, mpn |-> kw.mpn,
              description |-> kw.description,
              alternates |-> Get(kw, "alternates", <<>>),
              fields |-> Get(kw, "fields", <<>>),
              image |-> Get(kw, "image", None)])

(***************************************************************************)
(* models/components.py: Core, Connector, Cable                            *)
(***************************************************************************)
\* str(n) for the pair group numbers of the model
IntStr(n) == CASE n = 1 -> "1" [] n = 2 -> "2" [] n = 3 -> "3" [] OTHER -> "n"

\* Core(index, color, label, pair_group); color is a ColorSpec already;
\* pair_group arrives as an int or None and is kept as str(v)
Core(kw) ==
  IF kw.index < 0
  THEN Raise(ValidationError(<<FieldError("index", "Input should be greater than or equal to 0")>>))
  ELSE Ok([index |-> kw.index, color |-> kw.color,
           label |-> strip_optional_strings(kw.label),
           pair_group |-> IF kw.pair_group = NoneV THEN None
                          ELSE IntStr(kw.pair_group.int)])

\* a count check that accepts fewer labels than pins
validate_pinlabels_count_atmost(pinlabels, pincount) ==
  pinlabels = <<>> \/ Len(pinlabels) <= pincount

\* Connector.validate_pinlabels_count
validate_pinlabels_count(pinlabels, pincount) ==
  pinlabels = <<>> \/ Len(pinlabels) = pincount

Connector(kw) ==
  LET errs == IdentityErrors(kw)
              \o (IF kw.pincount < 1
                  THEN <<FieldError("pincount", "Input should be greater than or equal to 1")>>
                  ELSE <<>>)
  IN IF errs # <<>> THEN Raise(ValidationError(errs))
     ELSE IF ~validate_pinlabels_count(kw.pinlabels, kw.pincount)
     THEN Raise(ValidationError(<<FieldError("", "pinlabels count must match pincount")>>))
     ELSE Ok([id |-> kw.id, primary_pn |-> kw.primary_pn,
              manufacturer |-> kw.manufacturer, mpn |-> kw.mpn,
              description |-> kw.description,
              pincount |-> kw.pincount, pinlabels |-> kw.pinlabels,
              alternates |-> kw.alternates, fields |-> kw.fields,
              image |-> kw.image])

\* a count check that accepts every cores list
validate_cores_count_any(cores, wirecount) == TRUE

\* Cable.validate_cores_count
validate_cores_count(cores, wirecount) ==
  cores = <<>> \/ Len(cores) = wirecount

\* an index check that only looks at the range
validate_core_indices_range(cores, wirecount) ==
  \/ cores = <<>>
  \/ \A i \in DOMAIN cores : cores[i].index >= 0 /\ cores[i].index < wirecount

\* Cable.validate_core_indices
validate_core_indices(cores, wirecount) ==
  \/ cores = <<>>
  \/ /\ \A i, j \in DOMAIN cores : i # j => cores[i].index # cores[j].index
     /\ \A i \in DOMAIN cores : cores[i].index >= 0 /\ cores[i].index < wirecount

Cable(kw) ==
  LET errs == IdentityErrors(kw)
              \o (IF kw.wirecount < 1
                  THEN <<FieldError("wirecount", "Input should be greater than or equal to 1")>>
                  ELSE <<>>)
              \o RequiredStringErrors("gauge", kw.gauge)
  IN IF errs # <<>> THEN Raise(ValidationError(errs))
     ELSE IF ~validate_cores_count(kw.cores, kw.wirecount)
     THEN Raise(ValidationError(<<FieldError("", "cores count must match wirecount")>>))
     ELSE IF ~validate_core_indices(kw.cores, kw.wirecount)
     THEN Raise(ValidationError(<<FieldError("", "Core indices must be unique and in range")>>))
     ELSE Ok([id |-> kw.id, primary_pn |-> kw.primary_pn,
              manufacturer |-> kw.manufacturer, mpn |-> kw.mpn,
              description |-> kw.description,
              wirecount |-> kw.wirecount, cores |-> kw.cores,
              gauge |-> kw.gauge, length |-> kw.length,
              alternates |-> kw.alternates, fields |-> kw.fields,
              image |-> kw.image])

(***************************************************************************)
(* models/document.py: DocumentMeta, HarnessDocument                       *)
(***************************************************************************)
DocumentMeta(kw) ==
  LET errs == RequiredStringErrors("id", kw.id)
              \o RequiredStringErrors("title", kw.title)
              \o RequiredStringErrors("revision", kw.revision)
              \o (IF kw.date = "" THEN <<FieldError("date", "Date cannot be empty")>> ELSE <<>>)
  IN IF errs # <<>> THEN Raise(ValidationError(errs))
     ELSE Ok([id |-> kw.id, title |-> kw.title, revision |-> kw.revision,
              date |-> kw.date])

\* the entries that validate_connection_references appends for connection
\* number i (0-based, as enumerate counts)
FromConnectorErrors(i, conn, connectors) ==
  IF conn.from_connector \notin DOMAIN connectors
  THEN <<[conn |-> i, field |-> "from_connector", name |-> conn.from_connector]>>
  ELSE <<>>

ToConnectorErrors(i, conn, connectors) ==
  IF conn.to_connector \notin DOMAIN connectors
  THEN <<[conn |-> i, field |-> "to_connector", name |-> conn.to_connector]>>
  ELSE <<>>

\* the range check with > in place of >=
CableErrorsOffByOne(i, conn, cables) ==
  IF conn.cable \notin DOMAIN cables
  THEN <<[conn |-> i, field |-> "cable", name |-> conn.cable]>>
  ELSE IF conn.core > cables[conn.cable].wirecount
  THEN <<[conn |-> i, field |-> "core", name |-> conn.cable, core |-> conn.core]>>
  ELSE <<>>

CableErrors(i, conn, cables) ==
  IF conn.cable \notin DOMAIN cables
  THEN <<[conn |-> i, field |-> "cable", name |-> conn.cable]>>
  ELSE IF conn.core >= cables[conn.cable].wirecount
  THEN <<[conn |-> i, field |-> "core", name |-> conn.cable, core |-> conn.core]>>
  ELSE <<>>

ConnectionErrors(i, conn, connectors, cables) ==
  FromConnectorErrors(i, conn, connectors)
  \o ToConnectorErrors(i, conn, connectors)
  \o CableErrors(i, conn, cables)

RECURSIVE ReferenceErrors(_, _, _, _)
ReferenceErrors(connections, connectors, cables, n) ==
  IF n = 0 THEN <<>>
  ELSE ReferenceErrors(connections, connectors, cables, n - 1)
       \o ConnectionErrors(n - 1, connections[n], connectors, cables)

\* a fail-fast check: only the first violation is reported
validate_connection_references_first(connections, connectors, cables) ==
  LET errors == ReferenceErrors(connections, connectors, cables, Len(connections))
  IN IF errors = <<>> THEN <<>> ELSE <<errors[1]>>

\* HarnessDocument.validate_connection_references: the list `errors`
validate_connection_references(connections, connectors, cables) ==
  ReferenceErrors(connections, connectors, cables, Len(connections))

\* HarnessDocument(**kw); a ValueError raised by the model validator becomes
\* one entry of the ValidationError, carrying every line of its message
HarnessDocument(kw) ==
  LET errors == validate_connection_references(kw.connections, kw.connectors, kw.cables)
  IN IF errors # <<>>
     THEN Raise(ValidationError(<<[loc |-> "", msg |-> "Invalid connection references",
                                   lines |-> errors]>>))
     ELSE Ok([metadata |-> kw.metadata, parts |-> kw.parts,
              connectors |-> kw.connectors, cables |-> kw.cables,
              connections |-> kw.connections, accessories |-> kw.accessories])

(***************************************************************************)
(* parser.py                                                               *)
(***************************************************************************)
\* the order in which the ids of a section appear in the file
IdOrder == <<"J1", "J2", "J3", "W1", "W2", "W3", "P1", "P2", "A1">>

Keys(d) == SelectSeq(IdOrder, LAMBDA k : k \in DOMAIN d)

AllOk(rs) == \A i \in DOMAIN rs : rs[i].ok

FirstFailure(rs) == CHOOSE i \in DOMAIN rs : ~rs[i].ok /\ \A j \in 1..(i - 1) : rs[j].ok

\* the list built by a loop whose body may raise: the values, or the first
\* exception
Collect(rs) ==
  IF AllOk(rs) THEN Ok([i \in DOMAIN rs |-> rs[i].val])
  ELSE Raise(rs[FirstFailure(rs)].err)

RECURSIVE Flatten(_)
Flatten(ss) == IF ss = <<>> THEN <<>> ELSE Head(ss) \o Flatten(Tail(ss))

Min(a, b) == IF a < b THEN a ELSE b

ParserError(message, path, details) ==
  [type |-> "ParserError", message |-> message, path |-> path, details |-> details]

_parse_alternates(alternates_data) ==
  Collect([i \in DOMAIN alternates_data |->
             AlternatePart([manufacturer |-> Get(alternates_data[i], "manufacturer", ""),
                            mpn |-> Get(alternates_data[i], "mpn", "")])])

\* _parse_image for an image given as a path string (None when absent)
_parse_image(image_data) ==
  IF image_data = None THEN Ok(None)
  ELSE IF image_data = ""
  THEN Raise(ValidationError(<<FieldError("src", "Image source path cannot be empty")>>))
  ELSE Ok(image_data)

\* _parse_quantity for a number ([int |-> tenths]) or a mapping
_parse_quantity(qty_data) ==
  IF IsInt(qty_data) THEN Quantity(qty_data.int, "pcs")
  ELSE Quantity(Get(qty_data, "value", 0), Get(qty_data, "unit", "pcs"))

PartFromEntry(part_id, part_info) ==
  LET alternates == _parse_alternates(Get(part_info, "alternates", <<>>))
      image == _parse_image(Get(part_info, "image", None))
  IN IF ~alternates.ok THEN alternates
     ELSE IF ~image.ok THEN image
     ELSE Part([id |-> part_id,
                primary_pn |-> Get(part_info, "primary_pn", Get(part_info, "pn", part_id)),
                manufacturer |-> Get(part_info, "manufacturer", ""),
                mpn |-> Get(part_info, "mpn", ""),
                description |-> Get(part_info, "description", ""),
                alternates |-> alternates.val,
                fields |-> Get(part_info, "fields", <<>>),
                image |-> image.val])

\* a loop that fills a dict keyed by id: the dict, or the first exception
CollectDict(ids, rs) ==
  IF AllOk(rs) THEN Ok([k \in {ids[i] : i \in DOMAIN ids} |->
                          rs[CHOOSE i \in DOMAIN ids : ids[i] = k].val])
  ELSE Raise(rs[FirstFailure(rs)].err)

DictEntries(d) == SelectSeq(Keys(d), LAMBDA k : ~IsNode(d[k]))

_parse_parts(parts_data) ==
  LET ids == DictEntries(parts_data)
  IN CollectDict(ids, [i \in DOMAIN ids |-> PartFromEntry(ids[i], parts_data[ids[i]])])

\* part_ref = info.get("pn") or info.get("part"); parts.get(part_ref)
PartRef(info) ==
  IF Get(info, "pn", None) \notin {None, ""} THEN info.pn ELSE Get(info, "part", None)

HasPart(info, parts) == PartRef(info) \notin {None, ""} /\ PartRef(info) \in DOMAIN parts

\* a default part number that is the bare id
DefaultPnBare(id) == id

\* f"PN-{conn_id}", f"PN-{cable_id}"
DefaultPn(id) == "PN-" \o id

\* the identity fields of a connector or cable entry; kind is "Connector" or "Cable"
IdentityOf(kind, id, info, parts) ==
  IF HasPart(info, parts)
  THEN LET part == parts[PartRef(info)]
           image == _parse_image(Get(info, "image", None))
       IN IF ~image.ok THEN image
          ELSE Ok([primary_pn |-> Get(info, "pn", part.primary_pn),
                   manufacturer |-> Get(info, "manufacturer", part.manufacturer),
                   mpn |-> Get(info, "mpn", part.mpn),
                   description |-> part.description,
                   alternates |-> part.alternates,
                   image |-> IF image.val # None THEN image.val ELSE part.image,
                   fields |-> [k \in DOMAIN part.fields \cup DOMAIN Get(info, "fields", <<>>) |->
                                 IF k \in DOMAIN Get(info, "fields", <<>>)
                                 THEN info.fields[k] ELSE part.fields[k]]])
  ELSE LET alternates == _parse_alternates(Get(info, "alternates", <<>>))
           image == _parse_image(Get(info, "image", None))
       IN IF ~alternates.ok THEN alternates
          ELSE IF ~image.ok THEN image
          ELSE Ok([primary_pn |-> Get(info, "pn", DefaultPn(id)),
                   manufacturer |-> Get(info, "manufacturer", "Unknown"),
                   mpn |-> Get(info, "mpn", ""),
                   description |-> Get(info, "description", kind \o " " \o id),
                   alternates |-> alternates.val,
                   image |-> image.val,
                   fields |-> Get(info, "fields", <<>>)])

ConnectorFromEntry(conn_id, conn_info, parts) ==
  LET ident == IdentityOf("Connector", conn_id, conn_info, parts)
      pinlabels == Get(conn_info, "pinlabels", <<>>)
      pincount == Get(conn_info, "pincount", IF pinlabels # <<>> THEN Len(pinlabels) ELSE 1)
  IN IF ~ident.ok THEN ident
     ELSE Connector([id |-> conn_id,
                     primary_pn |-> ident.val.primary_pn,
                     manufacturer |-> ident.val.manufacturer,
                     mpn |-> ident.val.mpn,
                     description |-> ident.val.description,
                     pincount |-> pincount,
                     pinlabels |-> pinlabels,
                     alternates |-> ident.val.alternates,
                     fields |-> ident.val.fields,
                     image |-> ident.val.image])

_parse_connectors(connectors_data, parts) ==
  LET ids == DictEntries(connectors_data)
  IN CollectDict(ids, [i \in DOMAIN ids |->
                         ConnectorFromEntry(ids[i], connectors_data[ids[i]], parts)])

\* one iteration of the loop of _parse_cores_from_wireviz (i is 0-based)
CoreFromColor(colors, wirelabels, i) ==
  LET color == ColorSpec_parse(colors[i + 1])
  IN IF ~color.ok THEN Raise([type |-> "ValueError", msg |-> color.err])
     ELSE Core([index |-> i,
                color |-> color.val,
                label |-> IF i < Len(wirelabels) THEN wirelabels[i + 1] ELSE None,
                pair_group |-> IF i % 2 = 0 /\ i + 1 < Len(colors)
                               THEN IntV((i \div 2) + 1) ELSE NoneV])

_parse_cores_from_wireviz(colors, wirelabels) ==
  Collect([k \in DOMAIN colors |-> CoreFromColor(colors, wirelabels, k - 1)])

CableFromEntry(cable_id, cable_info, parts) ==
  LET ident == IdentityOf("Cable", cable_id, cable_info, parts)
      cores == _parse_cores_from_wireviz(Get(cable_info, "colors", <<>>),
                                         Get(cable_info, "wirelabels", <<>>))
      length == _parse_quantity(Get(cable_info, "length", [value |-> 0, unit |-> "mm"]))
  IN IF ~ident.ok THEN ident
     ELSE IF ~cores.ok THEN cores
     ELSE IF ~length.ok THEN length
     ELSE Cable([id |-> cable_id,
                 primary_pn |-> ident.val.primary_pn,
                 manufacturer |-> ident.val.manufacturer,
                 mpn |-> ident.val.mpn,
                 description |-> ident.val.description,
                 wirecount |-> Get(cable_info, "wirecount",
                                   IF cores.val # <<>> THEN Len(cores.val) ELSE 1),
                 cores |-> cores.val,
                 gauge |-> Get(cable_info, "gauge",
                               Get(ident.val.fields, "gauge_awg", "22 AWG")),
                 length |-> length.val,
                 alternates |-> ident.val.alternates,
                 fields |-> ident.val.fields,
                 image |-> ident.val.image])

_parse_cables(cables_data, parts) ==
  LET ids == DictEntries(cables_data)
  IN CollectDict(ids, [i \in DOMAIN ids |->
                         CableFromEntry(ids[i], cables_data[ids[i]], parts)])

\* a parser that keeps the core number of the input
InfoCoreUnconverted(core) == core

\* core = conn.get("core", 1); if core > 0: core = core - 1
InfoCore(core) == IF core > 0 THEN core - 1 ELSE core

\* one iteration of the loop of _parse_connection_info
ConnectionFromInfo(conn) ==
  LET core == Get(conn, "core", IntV(1))
  IN IF ~IsInt(core) THEN Raise(TypeError("'>' not supported"))
     ELSE Connection([from_connector |-> Get(conn, "from", ""),
                      from_pin |-> Get(conn, "pin", IntV(1)),
                      cable |-> Get(conn, "cable", ""),
                      core |-> IntV(InfoCore(core.int)),
                      to_connector |-> Get(conn, "to", ""),
                      to_pin |-> Get(conn, "pin", IntV(1)),
                      notes |-> Get(conn, "notes", None),
                      signal_name |-> Get(conn, "label", None),
                      wire_label |-> Get(conn, "label", None),
                      pair_group |-> Get(conn, "pair", None)])

_parse_connection_info(connection_info_data) ==
  LET entries == SelectSeq(connection_info_data, LAMBDA c : ~IsNode(c))
  IN Collect([i \in DOMAIN entries |-> ConnectionFromInfo(entries[i])])

\* the (key, pins) pairs of one element of a group
ElementPairs(elem) ==
  IF IsMap(elem)
  THEN [i \in DOMAIN elem.map |->
          [key |-> elem.map[i].key,
           pins |-> IF IsList(elem.map[i].val) THEN elem.map[i].val.list
                    ELSE <<elem.map[i].val>>]]
  ELSE <<>>

GroupElements(conn_group) ==
  Flatten([i \in DOMAIN conn_group.list |-> ElementPairs(conn_group.list[i])])

\* the last element after the first whose key is (is not) a cable id; 0 if none
CableElement(elements, cables) ==
  LET found == {i \in 2..Len(elements) : elements[i].key \in DOMAIN cables}
  IN IF found = {} THEN 0 ELSE CHOOSE i \in found : \A j \in found : j <= i

\* a parser that takes the last mapping of a group for the "to" side
ToElementLast(elements, cables) == Len(elements)

ToElement(elements, cables) ==
  LET found == {i \in 2..Len(elements) : elements[i].key \notin DOMAIN cables}
  IN IF found = {} THEN 0 ELSE CHOOSE i \in found : \A j \in found : j <= i

\* the body of the inner loop: the Connection of position i (1-based here)
WireConnection(from_conn, from_pin, cable_id, core, to_conn, to_pin, cables) ==
  IF ~IsInt(core) THEN Raise(TypeError("unsupported operand type(s) for -"))
  ELSE LET cable == cables[cable_id]
           core_idx == core.int - 1
           hasCore == cable.cores # <<>> /\ 0 <= core_idx /\ core_idx < Len(cable.cores)
       IN Connection([from_connector |-> from_conn,
                      from_pin |-> from_pin,
                      cable |-> cable_id,
                      core |-> IntV(core.int - 1),
                      to_connector |-> to_conn,
                      to_pin |-> to_pin,
                      wire_label |-> IF hasCore THEN cable.cores[core_idx + 1].label ELSE None,
                      pair_group |-> IF hasCore THEN cable.cores[core_idx + 1].pair_group
                                     ELSE None])

\* a pairing that gives nothing unless the three lists have one length
ZipLengthStrict(from_pins, cores, to_pins) ==
  IF Len(from_pins) = Len(cores) /\ Len(cores) = Len(to_pins) THEN Len(cores) ELSE 0

\* the number of triples of zip(from_pins, cores, to_pins)
ZipLength(from_pins, cores, to_pins) == Min(Len(from_pins), Min(Len(cores), Len(to_pins)))

\* the Connections (or exceptions) that one group of the list contributes
GroupConnections(conn_group, cables) ==
  IF ~IsList(conn_group) \/ Len(conn_group.list) < 2 THEN <<>>
  ELSE LET elements == GroupElements(conn_group)
           c == CableElement(elements, cables)
           t == ToElement(elements, cables)
       IN IF Len(elements) < 2 THEN <<>>
          ELSE IF c = 0 \/ t = 0 \/ elements[c].key = "" \/ elements[t].key = "" THEN <<>>
          ELSE LET from_pins == elements[1].pins
                   cores == elements[c].pins
                   to_pins == elements[t].pins
                   n == ZipLength(from_pins, cores, to_pins)
               IN [i \in 1..n |->
                     WireConnection(elements[1].key, from_pins[i], elements[c].key,
                                    cores[i], elements[t].key, to_pins[i], cables)]

\* a derivation that stops at the first group it skips
_derive_connections_until_skip(connections_data, cables) ==
  Collect(Flatten([g \in DOMAIN connections_data |->
                     IF \E h \in 1..g : GroupConnections(connections_data[h], cables) = <<>>
                     THEN <<>>
                     ELSE GroupConnections(connections_data[g], cables)]))

_derive_connections_from_wireviz(connections_data, cables) ==
  Collect(Flatten([g \in DOMAIN connections_data |->
                     GroupConnections(connections_data[g], cables)]))

\* AccessoryType(type_str), AccessoryType.OTHER for a value outside the enumeration
AccessoryType(type_str) ==
  IF type_str \in {"heatshrink", "label_sleeve", "conduit", "braid", "tape", "grommet",
                   "clamp", "tie_wrap", "ferrule", "boot", "other"}
  THEN type_str ELSE "other"

\* f"ACC-{len(result)}"
AccId(n) == CASE n = 0 -> "ACC-0" [] n = 1 -> "ACC-1" [] OTHER -> "ACC-n"

\* the Part of one accessory entry; n is len(result) when it is parsed
AccessoryPart(acc_info, parts, n) ==
  LET part_ref == Get(acc_info, "part", NoneV)
  IN IF IsStr(part_ref) /\ part_ref.str \in DOMAIN parts THEN Ok(parts[part_ref.str])
     ELSE IF part_ref # NoneV /\ ~IsNode(part_ref)
     THEN Part([id |-> Get(part_ref, "id", AccId(n)),
                primary_pn |-> Get(part_ref, "pn", Get(part_ref, "primary_pn", "")),
                manufacturer |-> Get(part_ref, "manufacturer", "Unknown"),
                mpn |-> Get(part_ref, "mpn", ""),
                description |-> Get(part_ref, "description", "")])
     ELSE Part([id |-> Get(acc_info, "id", AccId(n)),
                primary_pn |-> IF IsStr(part_ref) THEN part_ref.str ELSE "",
                manufacturer |-> "",
                mpn |-> "",
                description |-> Get(acc_info, "description", "")])

AccessoryFromEntry(acc_info, parts, n) ==
  LET part == AccessoryPart(acc_info, parts, n)
      qty == _parse_quantity(Get(acc_info, "qty", Get(acc_info, "quantity", IntV(10))))
  IN IF ~part.ok THEN part
     ELSE IF ~qty.ok THEN qty
     ELSE Ok([type |-> AccessoryType(Get(acc_info, "type", "other")),
              part |-> part.val,
              quantity |-> IF "qty_unit" \in DOMAIN acc_info
                           THEN [value |-> qty.val.value, unit |-> acc_info.qty_unit]
                           ELSE qty.val])

\* accessories_data is [list |-> entries] or a dict id -> entry
_parse_accessories(accessories_data, parts) ==
  LET items == IF IsList(accessories_data)
               THEN SelectSeq(accessories_data.list, LAMBDA a : ~IsNode(a))
               ELSE [i \in DOMAIN Keys(accessories_data) |->
                       [k \in {"id"} \cup DOMAIN accessories_data[Keys(accessories_data)[i]] |->
                          IF k \in DOMAIN accessories_data[Keys(accessories_data)[i]]
                          THEN accessories_data[Keys(accessories_data)[i]][k]
                          ELSE Keys(accessories_data)[i]]]
  IN Collect([i \in DOMAIN items |-> AccessoryFromEntry(items[i], parts, i - 1)])

_parse_metadata(metadata_data) ==
  DocumentMeta([id |-> Get(metadata_data, "id", "UNKNOWN"),
                title |-> Get(metadata_data, "title", "Untitled Harness"),
                revision |-> Get(metadata_data, "revision", "A"),
                date |-> Get(metadata_data, "date", "")])

\* a parser that prefers the connections key
ConnectionStrategyNativeFirst(raw_data) ==
  IF "connections" \in DOMAIN raw_data THEN "connections"
  ELSE IF "connection_info" \in DOMAIN raw_data THEN "connection_info"
  ELSE "none"

\* which branch of the if/elif/else on the connection keys is taken
ConnectionStrategy(raw_data) ==
  IF "connection_info" \in DOMAIN raw_data THEN "connection_info"
  ELSE IF "connections" \in DOMAIN raw_data THEN "connections"
  ELSE "none"

ParseConnections(raw_data, cables) ==
  CASE ConnectionStrategy(raw_data) = "connection_info" ->
         _parse_connection_info(raw_data.connection_info)
    [] ConnectionStrategy(raw_data) = "connections" ->
         _derive_connections_from_wireviz(raw_data.connections, cables)
    [] OTHER -> Ok(<<>>)

NotRun == [ok |-> FALSE, err |-> [type |-> "NotRun"]]

Outcome(res, ran, conns) == [res |-> res, steps |-> ran, connections |-> conns]

\* the try block of parse_harness_yaml after the metadata check: its result
\* or the exception it raises, the section parsers it has called, in order,
\* and the result of the connection step
ParseSections(raw_data, path) ==
  LET Steps(last) ==
        <<"metadata", "parts", "connectors", "cables">>
          \o (IF ConnectionStrategy(raw_data) = "none" THEN <<>>
              ELSE <<ConnectionStrategy(raw_data)>>)
          \o last
      Build(metadata, parts, connectors, cables, connections, accessories) ==
        IF ~connections.ok THEN Outcome(connections, Steps(<<>>), connections)
        ELSE IF ~accessories.ok
        THEN Outcome(accessories, Steps(<<"accessories">>), connections)
        ELSE Outcome(HarnessDocument([metadata |-> metadata.val,
                                      parts |-> parts.val,
                                      connectors |-> connectors.val,
                                      cables |-> cables.val,
                                      connections |-> connections.val,
                                      accessories |-> accessories.val]),
                     Steps(<<"accessories">>), connections)
      Sections(metadata, parts, connectors, cables) ==
        IF ~connectors.ok
        THEN Outcome(connectors, <<"metadata", "parts", "connectors">>, NotRun)
        ELSE IF ~cables.ok
        THEN Outcome(cables, <<"metadata", "parts", "connectors", "cables">>, NotRun)
        ELSE Build(metadata, parts, connectors, cables,
                   ParseConnections(raw_data, cables.val),
                   _parse_accessories(Get(raw_data, "accessories", ListV(<<>>)),
                                      parts.val))
      Components(metadata, parts) ==
        IF ~metadata.ok THEN Outcome(metadata, <<"metadata">>, NotRun)
        ELSE IF ~parts.ok THEN Outcome(parts, <<"metadata", "parts">>, NotRun)
        ELSE Sections(metadata, parts,
                      _parse_connectors(Get(raw_data, "connectors", <<>>), parts.val),
                      _parse_cables(Get(raw_data, "cables", <<>>), parts.val))
  IN Components(_parse_metadata(raw_data.metadata),
                _parse_parts(Get(raw_data, "parts", <<>>)))

\* a parser that looks for the metadata section only after the parts
TryParseLate(raw_data, path) ==
  LET Late(parts) ==
        IF ~parts.ok THEN Outcome(parts, <<"parts">>, NotRun)
        ELSE IF "metadata" \notin DOMAIN raw_data
        THEN Outcome(Raise(ParserError("Missing required 'metadata' section", path, <<>>)),
                     <<"parts">>, NotRun)
        ELSE ParseSections(raw_data, path)
  IN Late(_parse_parts(Get(raw_data, "parts", <<>>)))

\* the try block of parse_harness_yaml
TryParse(raw_data, path) ==
  IF "metadata" \notin DOMAIN raw_data
  THEN Outcome(Raise(ParserError("Missing required 'metadata' section", path, <<>>)),
               <<>>, NotRun)
  ELSE ParseSections(raw_data, path)

\* except clauses that wrap validation errors only
ReraiseValidationOnly(e, path) ==
  IF e.type = "ValidationError" THEN ParserError("Validation failed", path, e.errors)
  ELSE e

\* the except clauses of parse_harness_yaml
Reraise(e, path) ==
  IF e.type = "ValidationError" THEN ParserError("Validation failed", path, e.errors)
  ELSE IF e.type = "ParserError" THEN e
  ELSE ParserError("Unexpected error", path, <<>>)

parse_harness_yaml(raw_data, path) ==
  LET Except(t) ==
        IF t.res.ok THEN t ELSE [t EXCEPT !.res = Raise(Reraise(t.res.err, path))]
  IN Except(TryParse(raw_data, path))

(***************************************************************************)
(* generators/bom.py: _extract_bom_items.  Quantities are in tenths, as    *)
(* Quantity values are; items_by_pn is the sequence of its entries in      *)
(* insertion order.                                                        *)
(***************************************************************************)
\* ord(c) for the characters of the part numbers of the model
Ord(c) ==
  CASE c = "-" -> 45 [] c = "0" -> 48 [] c = "1" -> 49 [] c = "2" -> 50
    [] c = "3" -> 51 [] c = "9" -> 57 [] c = "A" -> 65 [] c = "H" -> 72
    [] c = "J" -> 74 [] c = "N" -> 78 [] c = "P" -> 80 [] c = "S" -> 83
    [] c = "W" -> 87 [] c = "X" -> 88

\* the characters of a part number
Chars(pn) ==
  CASE pn = "P1" -> <<"P", "1">>
    [] pn = "X-1" -> <<"X", "-", "1">>
    [] pn = "PN-100" -> <<"P", "N", "-", "1", "0", "0">>
    [] pn = "PN-HS" -> <<"P", "N", "-", "H", "S">>
    [] pn = "PN-J1" -> <<"P", "N", "-", "J", "1">>
    [] pn = "PN-J2" -> <<"P", "N", "-", "J", "2">>
    [] pn = "PN-J3" -> <<"P", "N", "-", "J", "3">>
    [] pn = "PN-W1" -> <<"P", "N", "-", "W", "1">>
    [] pn = "PN-W2" -> <<"P", "N", "-", "W", "2">>
    [] pn = "PN-W3" -> <<"P", "N", "-", "W", "3">>

\* a < b for Python strings: the first differing character decides, a
\* proper prefix is smaller
StrLess(a, b) ==
  \E k \in 1..Len(Chars(b)) :
     /\ k <= Len(Chars(a)) + 1
     /\ \A j \in 1..(k - 1) : Chars(a)[j] = Chars(b)[j]
     /\ k = Len(Chars(a)) + 1 \/ Ord(Chars(a)[k]) < Ord(Chars(b)[k])

\* [f"{alt.manufacturer} {alt.mpn}" for alt in alternates]
AlternateNames(alternates) ==
  [i \in DOMAIN alternates |-> alternates[i].manufacturer \o " " \o alternates[i].mpn]

\* the entry items_by_pn[pn] gets when pn is first seen
NewItem(pn, unit, entity, category) ==
  [pn |-> pn, quantity |-> 0, unit |-> unit,
   manufacturer |-> entity.manufacturer, mpn |-> entity.mpn,
   description |-> entity.description,
   alternates |-> AlternateNames(entity.alternates),
   category |-> category, references |-> <<>>]

\* pn in items_by_pn
HasItem(items, pn) == \E i \in DOMAIN items : items[i].pn = pn

\* if pn not in items_by_pn: items_by_pn[pn] = {...}
Ensure(items, item) == IF HasItem(items, item.pn) THEN items ELSE Append(items, item)

\* a fold that keeps the last contribution instead of the sum
CountLast(items, pn, qty, refs) ==
  [i \in DOMAIN items |->
     IF items[i].pn = pn
     THEN [items[i] EXCEPT !.quantity = qty, !.references = @ \o refs]
     ELSE items[i]]

\* items_by_pn[pn]["quantity"] += qty; items_by_pn[pn]["references"] += refs
Count(items, pn, qty, refs) ==
  [i \in DOMAIN items |->
     IF items[i].pn = pn
     THEN [items[i] EXCEPT !.quantity = @ + qty, !.references = @ \o refs]
     ELSE items[i]]

RECURSIVE AddConnectors(_, _, _)
\* the loop over document.connectors.items(), ids being the keys left
AddConnectors(items, connectors, ids) ==
  IF ids = <<>> THEN items
  ELSE AddConnectors(
         Count(Ensure(items, NewItem(connectors[Head(ids)].primary_pn, "pcs",
                                     connectors[Head(ids)], "connector")),
               connectors[Head(ids)].primary_pn, 10, <<Head(ids)>>),
         connectors, Tail(ids))

RECURSIVE AddCables(_, _, _)
\* the loop over document.cables.items(); a Quantity is always truthy
AddCables(items, cables, ids) ==
  IF ids = <<>> THEN items
  ELSE AddCables(
         Count(Ensure(items, NewItem(cables[Head(ids)].primary_pn,
                                     cables[Head(ids)].length.unit,
                                     cables[Head(ids)], "cable")),
               cables[Head(ids)].primary_pn, cables[Head(ids)].length.value,
               <<Head(ids)>>),
         cables, Tail(ids))

RECURSIVE AddAccessories(_, _)
\* the loop over document.accessories: no reference is recorded
AddAccessories(items, accessories) ==
  IF accessories = <<>> THEN items
  ELSE AddAccessories(
         Count(Ensure(items, NewItem(Head(accessories).part.primary_pn,
                                     Head(accessories).quantity.unit,
                                     Head(accessories).part, "accessory")),
               Head(accessories).part.primary_pn, Head(accessories).quantity.value,
               <<>>),
         Tail(accessories))

RECURSIVE AddParts(_, _, _)
\* the loop over document.parts.items(): a part number already present is
\* skipped
AddParts(items, parts, ids) ==
  IF ids = <<>> THEN items
  ELSE AddParts(
         IF HasItem(items, parts[Head(ids)].primary_pn) THEN items
         ELSE Count(Append(items, NewItem(parts[Head(ids)].primary_pn, "pcs",
                                          parts[Head(ids)], "part")),
                    parts[Head(ids)].primary_pn, 10, <<Head(ids)>>),
         parts, Tail(ids))

RECURSIVE Join(_)
\* ", ".join(references)
Join(references) ==
  IF references = <<>> THEN ""
  ELSE IF Len(references) = 1 THEN Head(references)
  ELSE Head(references) \o ", " \o Join(Tail(references))

\* items_by_pn in insertion order
InsertionOrder(items) == items

\* sorted(items_by_pn.items()): the keys are distinct, so the part number
\* alone decides
Sorted(items) == SortSeq(items, LAMBDA a, b : StrLess(a.pn, b.pn))

\* BOMItem(item_number=idx, ...) for idx, (pn, data) in enumerate(..., start=1)
BOMItems(items) ==
  [idx \in DOMAIN items |->
     [item_number |-> idx,
      quantity |-> items[idx].quantity,
      unit |-> items[idx].unit,
      part_number |-> items[idx].pn,
      manufacturer |-> items[idx].manufacturer,
      mpn |-> items[idx].mpn,
      description |-> items[idx].description,
      alternates |-> items[idx].alternates,
      category |-> items[idx].category,
      reference |-> Join(items[idx].references)]]

_extract_bom_items(document) ==
  BOMItems(Sorted(
    AddParts(
      AddAccessories(
        AddCables(
          AddConnectors(<<>>, document.connectors, Keys(document.connectors)),
          document.cables, Keys(document.cables)),
        document.accessories),
      document.parts, Keys(document.parts))))

(***************************************************************************)
(* models/document.py: HarnessDocument.validate_complete                   *)
(***************************************************************************)
\* str(n) for a core index
Repr(n) ==
  CASE n = 0 -> "0" [] n = 1 -> "1" [] n = 2 -> "2" [] n = 3 -> "3" [] n = 4 -> "4"

\* {conn.cable for conn in self.connections}
UsedCables(document) ==
  { document.connections[i].cable : i \in DOMAIN document.connections }

\* the from_connector and to_connector of every connection
UsedConnectors(document) ==
  { document.connections[i].from_connector : i \in DOMAIN document.connections }
  \cup { document.connections[i].to_connector : i \in DOMAIN document.connections }

\* cable_core_usage[cable_id]
UsedCores(document, cable_id) ==
  { document.connections[i].core :
      i \in { j \in DOMAIN document.connections : document.connections[j].cable = cable_id } }

\* sorted(set(range(wirecount)) - used_cores)
UnusedCores(wirecount, used_cores) ==
  SelectSeq([i \in 1..wirecount |-> i - 1], LAMBDA k : k \notin used_cores)

\* f"{kind} '{id}' has no connections" for each id of ids
NoConnectionIssues(kind, ids) ==
  [i \in DOMAIN ids |-> kind \o " '" \o ids[i] \o "' has no connections"]

\* the issues of the first loop, in the order of self.cables
UnusedCableIssues(document) ==
  NoConnectionIssues("Cable", SelectSeq(Keys(document.cables),
                                        LAMBDA id : id \notin UsedCables(document)))

\* the issues of the second loop, in the order of self.connectors
UnusedConnectorIssues(document) ==
  NoConnectionIssues("Connector", SelectSeq(Keys(document.connectors),
                                            LAMBDA id : id \notin UsedConnectors(document)))

\* f"Cable '{cable_id}' has unused cores: {sorted(unused_cores)}"
UnusedCoresIssue(cable_id, unused) ==
  "Cable '" \o cable_id \o "' has unused cores: ["
    \o Join([i \in DOMAIN unused |-> Repr(unused[i])]) \o "]"

\* the unused-cores issue of each cable of ids
CoreIssues(document, ids) ==
  [i \in DOMAIN ids |->
     UnusedCoresIssue(ids[i], UnusedCores(document.cables[ids[i]].wirecount,
                                          UsedCores(document, ids[i])))]

\* a third loop that looks only at cables some connection uses
UnusedCoreIssuesOfUsed(document) ==
  CoreIssues(document,
             SelectSeq(Keys(document.cables),
                       LAMBDA id : /\ id \in UsedCables(document)
                                   /\ UnusedCores(document.cables[id].wirecount,
                                                  UsedCores(document, id)) # <<>>))

\* the issues of the third loop, in the order of self.cables
UnusedCoreIssues(document) ==
  CoreIssues(document,
             SelectSeq(Keys(document.cables),
                       LAMBDA id : UnusedCores(document.cables[id].wirecount,
                                               UsedCores(document, id)) # <<>>))

validate_complete(document) ==
  UnusedCableIssues(document) \o UnusedConnectorIssues(document)
    \o UnusedCoreIssues(document)

(***************************************************************************)
(* generators/wiring_table.py: _build_wiring_table_rows                    *)
(***************************************************************************)
\* str(conn.from_pin)
PinStr(pin) == IF IsInt(pin) THEN IntStr(pin.int) ELSE pin.str

\* x or ""
OrEmpty(x) == IF x = None THEN "" ELSE x

\* the first core of the cable with core.index == index, as a one-element
\* sequence, or the empty sequence (the loop with break)
FindCore(cores, index) ==
  IF \E i \in DOMAIN cores : cores[i].index = index
  THEN <<cores[CHOOSE i \in DOMAIN cores :
                 /\ cores[i].index = index
                 /\ \A j \in 1..(i - 1) : cores[j].index # index]>>
  ELSE <<>>

\* a label that prefers the core's label to the connection's wire_label
RowLabelCoreFirst(conn, core_label) ==
  IF core_label # "" THEN core_label
  ELSE IF conn.wire_label \notin {None, ""} THEN conn.wire_label
  ELSE IF conn.signal_name \notin {None, ""} THEN conn.signal_name
  ELSE ""

\* the label of a row: the core's label, overridden by wire_label, with
\* signal_name used when the label is still empty
RowLabel(conn, core_label) ==
  IF conn.wire_label \notin {None, ""} THEN conn.wire_label
  ELSE IF core_label = "" /\ conn.signal_name \notin {None, ""} THEN conn.signal_name
  ELSE core_label

\* WiringTableRow(...) for one connection; found is FindCore's result
WiringTableRow(conn, found) ==
  [from_connector |-> conn.from_connector,
   from_pin |-> PinStr(conn.from_pin),
   to_connector |-> conn.to_connector,
   to_pin |-> PinStr(conn.to_pin),
   cable |-> conn.cable,
   core |-> conn.core + 1,
   label |-> RowLabel(conn, IF found = <<>> THEN "" ELSE OrEmpty(found[1].label)),
   color |-> IF found = <<>> THEN "" ELSE found[1].color.display_color,
   pair_group |-> IF found = <<>> THEN "" ELSE OrEmpty(found[1].pair_group),
   notes |-> OrEmpty(conn.notes)]

\* document.cables.get(conn.cable) and its cores, empty when there is none
CoresOf(document, cable) ==
  IF cable \in DOMAIN document.cables THEN document.cables[cable].cores ELSE <<>>

_build_wiring_table_rows(document) ==
  [i \in DOMAIN document.connections |->
     WiringTableRow(document.connections[i],
                    FindCore(CoresOf(document, document.connections[i].cable),
                             document.connections[i].core))]

(***************************************************************************)
(* The inputs explored.                                                    *)
(***************************************************************************)
SeqsUpTo(S, n) == UNION {[1..k -> S] : k \in 0..n}

\* the lists of at most n elements: any first element, then elements of Rest
Lists(First, Rest, n) ==
  {<<>>} \cup { <<f>> \o r : f \in First, r \in SeqsUpTo(Rest, n - 1) }

ValidMetadata == [id |-> "WH-1", title |-> "T", revision |-> "A", date |-> "2024-01-01"]

BareConnector == [pincount |-> 2]
FullConnector == [pincount |-> 2, mpn |-> "MPN-J"]

PinLabelNames == <<"A", "B", "C", "D">>

\* connector entries with pin labels: no pincount, a pincount that differs,
\* and an entry with neither
LabelledConnector == [pinlabels |-> SubSeq(PinLabelNames, 1, MaxPins), mpn |-> "MPN-J"]
MislabelledConnector == [pinlabels |-> SubSeq(PinLabelNames, 1, MaxPins),
                         pincount |-> MaxPins + 1, mpn |-> "MPN-J"]
UnsizedConnector == [mpn |-> "MPN-J"]

ConnectorSections ==
  { [J1 |-> FullConnector, J2 |-> FullConnector],
    [J1 |-> BareConnector, J2 |-> BareConnector],
    [J1 |-> FullConnector],
    [J1 |-> FullConnector, J2 |-> FullConnector, W1 |-> FullConnector],
    [J1 |-> LabelledConnector, J2 |-> FullConnector],
    [J1 |-> MislabelledConnector, J2 |-> FullConnector],
    [J1 |-> UnsizedConnector, J2 |-> FullConnector] }

ColorNames == << <<"R", "D">>, <<"B", "K">>, <<"b", "u", "-", "W", "H">>, <<"W", "H">> >>
LabelNames == <<"VCC", "GND", "TX", "RX">>

PlainCable == [wirecount |-> MaxWires, mpn |-> "MPN-W"]
ColoredCable == [colors |-> SubSeq(ColorNames, 1, MaxWires),
                 wirelabels |-> SubSeq(LabelNames, 1, MaxWires),
                 mpn |-> "MPN-W"]
BareCable == [wirecount |-> MaxWires, colors |-> SubSeq(ColorNames, 1, MaxWires)]

\* a wirecount given next to the colors: equal to their number, and larger
MatchedCable == [wirecount |-> MaxWires, colors |-> SubSeq(ColorNames, 1, MaxWires),
                 mpn |-> "MPN-W"]
OverriddenCable == [wirecount |-> MaxWires + 1, colors |-> SubSeq(ColorNames, 1, MaxWires),
                    mpn |-> "MPN-W"]

CableSections ==
  { [W1 |-> PlainCable],
    [W1 |-> ColoredCable],
    [W1 |-> BareCable],
    [W1 |-> ColoredCable, W2 |-> PlainCable],
    [W1 |-> MatchedCable],
    [W1 |-> OverriddenCable] }

Routes ==
  { [from |-> "J1", cable |-> "W1", to |-> "J2"],
    [from |-> "J3", cable |-> "W1", to |-> "J3"],
    [from |-> "J1", cable |-> "W2", to |-> "J2"],
    [from |-> "J1", cable |-> "W1", to |-> "W1"] }

InfoEntry(r, pin, core) ==
  [from |-> r.from, pin |-> pin, cable |-> r.cable, core |-> IntV(core), to |-> r.to]

StraightRoute == [from |-> "J1", cable |-> "W1", to |-> "J2"]

InfoEntries ==
  { InfoEntry(r, IntV(1), 1) : r \in Routes }
  \cup { InfoEntry(StraightRoute, IntV(1), c) : c \in 0..(MaxWires + 1) }
  \cup { InfoEntry(StraightRoute, StrV("A"), 1),
         [from |-> "J1", pin |-> IntV(2), cable |-> "W1", core |-> IntV(1), to |-> "J2",
          label |-> "SIG"] }

\* entries that follow the first: another wire, a dangling connector, a core
\* out of range, a labelled entry
InfoRest ==
  { InfoEntry(StraightRoute, IntV(1), 1),
    InfoEntry(StraightRoute, IntV(1), 2),
    InfoEntry([from |-> "J3", cable |-> "W1", to |-> "J3"], IntV(1), 1),
    InfoEntry(StraightRoute, IntV(1), MaxWires + 1),
    [from |-> "J1", pin |-> IntV(2), cable |-> "W1", core |-> IntV(1), to |-> "J2",
     label |-> "SIG"] }

InfoLists == Lists(InfoEntries, InfoRest, MaxConns)

Element(key, pins) == MapV(<<[key |-> key, val |-> ListV(pins)]>>)

Group3(f, fp, x, xs, y, ys) == ListV(<<Element(f, fp), Element(x, xs), Element(y, ys)>>)

\* the WireViz-native group that states one connection_info entry
GroupOfEntry(e) == Group3(e.from, <<e.pin>>, e.cable, <<e.core>>, e.to, <<e.pin>>)
SwappedGroupOfEntry(e) == Group3(e.from, <<e.pin>>, e.to, <<e.pin>>, e.cable, <<e.core>>)

SameRoute(L) == \A i \in DOMAIN L : L[i].from = L[1].from /\ L[i].cable = L[1].cable
                                     /\ L[i].to = L[1].to

\* one group for the whole list when all entries share from, cable and to
MergedGroups(L) ==
  IF L # <<>> /\ SameRoute(L)
  THEN << Group3(L[1].from, [i \in DOMAIN L |-> L[i].pin],
                 L[1].cable, [i \in DOMAIN L |-> L[i].core],
                 L[1].to, [i \in DOMAIN L |-> L[i].pin]) >>
  ELSE [i \in DOMAIN L |-> GroupOfEntry(L[i])]

OtherGroups == << Group3("J1", <<IntV(2)>>, "W1", <<IntV(2)>>, "J1", <<IntV(1)>>) >>

NativeFormsOf(L) ==
  { [i \in DOMAIN L |-> GroupOfEntry(L[i])],
    [i \in DOMAIN L |-> SwappedGroupOfEntry(L[i])],
    MergedGroups(L),
    OtherGroups }

PinRun(n) == [i \in 1..n |-> IntV(i)]
Reversed(q) == [i \in DOMAIN q |-> q[Len(q) + 1 - i]]

\* (from pins, cores, to pins) of the groups explored
WireLists ==
  { <<PinRun(n), PinRun(n), PinRun(n)>> : n \in 1..MaxPins }
  \cup { <<PinRun(MaxPins), Reversed(PinRun(MaxPins)), PinRun(MaxPins)>>,
         <<PinRun(MaxPins), PinRun(1), PinRun(MaxPins)>>,
         <<PinRun(1), PinRun(MaxPins), PinRun(MaxPins)>>,
         <<PinRun(MaxPins), PinRun(MaxPins), PinRun(1)>>,
         <<PinRun(1), <<IntV(0)>>, PinRun(1)>>,
         <<PinRun(1), <<IntV(MaxWires + 1)>>, PinRun(1)>>,
         <<<<StrV("A")>>, PinRun(1), <<StrV("B")>>>>,
         <<PinRun(1), <<IntV(1), StrV("x")>>, <<IntV(1), IntV(0)>>>> }

NativeGroups ==
  { Group3("J1", w[1], "W1", w[2], "J2", w[3]) : w \in WireLists }
  \cup { Group3("J1", PinRun(n), "J2", PinRun(n), "W1", PinRun(n)) : n \in 1..MaxPins }
  \cup { ListV(<<Element("J1", PinRun(1))>>),
         ListV(<<Element("J1", PinRun(1)), Element("W1", PinRun(1))>>),
         ListV(<<Element("J1", PinRun(1)), Element("J2", PinRun(1))>>),
         Group3("J1", PinRun(1), "W2", PinRun(1), "J2", PinRun(1)),
         Group3("J1", PinRun(1), "W1", PinRun(1), "W1", PinRun(1)),
         Group3("J3", PinRun(1), "W1", PinRun(1), "J2", PinRun(1)),
         ListV(<<MapV(<<[key |-> "J1", val |-> IntV(1)]>>),
                 MapV(<<[key |-> "W1", val |-> IntV(1)]>>),
                 MapV(<<[key |-> "J2", val |-> IntV(2)]>>)>>),
         Group3("J1", PinRun(1), "W1", <<StrV("x")>>, "J2", PinRun(1)),
         StrV("placeholder") }

\* groups that follow the first: a full group, an unknown cable, a short
\* group, a group that names the cable last
NativeRest ==
  { Group3("J1", PinRun(MaxPins), "W1", PinRun(MaxPins), "J2", PinRun(MaxPins)),
    Group3("J1", PinRun(1), "W2", PinRun(1), "J2", PinRun(1)),
    ListV(<<Element("J1", PinRun(1))>>),
    Group3("J1", PinRun(1), "J2", PinRun(1), "W1", PinRun(1)) }

NativeLists == Lists(NativeGroups, NativeRest, MaxConns)

Path == "harness.yml"
Paths == {"harness.yml", "other.yml"}

Document(md, cs, ws) == [metadata |-> md, connectors |-> cs, cables |-> ws]

Contexts == { Document(ValidMetadata, cs, ws) : cs \in ConnectorSections, ws \in CableSections }

InfoContexts ==
  { Document(ValidMetadata, [J1 |-> FullConnector, J2 |-> FullConnector], [W1 |-> PlainCable]),
    Document(ValidMetadata, [J1 |-> FullConnector, J2 |-> FullConnector],
             [W1 |-> ColoredCable, W2 |-> PlainCable]),
    Document(ValidMetadata, [J1 |-> FullConnector, J2 |-> FullConnector, W1 |-> FullConnector],
             [W1 |-> ColoredCable]),
    Document(ValidMetadata, [J1 |-> FullConnector], [W1 |-> PlainCable]) }

\* the scenario document of the specification
MinimalDocument ==
  [metadata |-> ValidMetadata,
   connectors |-> [J1 |-> [pincount |-> 2], J2 |-> [pincount |-> 2]],
   cables |-> [W1 |-> [wirecount |-> 2, colors |-> << <<"R", "D">>, <<"B", "K">> >>]],
   connection_info |-> << [from |-> "J1", pin |-> IntV(1), cable |-> "W1",
                           core |-> IntV(1), to |-> "J2"],
                          [from |-> "J1", pin |-> IntV(2), cable |-> "W1",
                           core |-> IntV(2), to |-> "J2"] >>]

With(d, k, v) == [x \in DOMAIN d \cup {k} |-> IF x = k THEN v ELSE d[x]]
Without(d, k) == [x \in DOMAIN d \ {k} |-> d[x]]

InfoDocuments == { With(d, "connection_info", L) : d \in InfoContexts, L \in InfoLists }

BothDocuments ==
  UNION { { With(With(d, "connection_info", L), "connections", G) : G \in NativeFormsOf(L) }
          : d \in InfoContexts, L \in InfoLists }

NativeContexts ==
  { Document(ValidMetadata, cs, ws) :
      cs \in { [J1 |-> FullConnector, J2 |-> FullConnector],
               [J1 |-> FullConnector, J2 |-> FullConnector, W1 |-> FullConnector] },
      ws \in { [W1 |-> ColoredCable] } }
  \cup { Document(ValidMetadata, [J1 |-> FullConnector, J2 |-> FullConnector],
                  [W1 |-> PlainCable]) }

NativeDocuments == { With(d, "connections", G) : d \in NativeContexts, G \in NativeLists }

\* {**a, **b}
Merge(a, b) == [k \in DOMAIN a \cup DOMAIN b |-> IF k \in DOMAIN b THEN b[k] ELSE a[k]]

LibraryPart ==
  [primary_pn |-> "PN-100", manufacturer |-> "ACME", mpn |-> "M-100",
   description |-> "Housing", fields |-> [gauge_awg |-> "24 AWG", series |-> "S"],
   image |-> "p1.png", alternates |-> <<[manufacturer |-> "ALT", mpn |-> "A-1"]>>]

PartsSection == [P1 |-> LibraryPart]

\* how an entry names its part: not at all, by part or by pn, resolved or not
PartReferences ==
  { <<>>, [part |-> "P1"], [pn |-> "P1"], [part |-> "P9"], [pn |-> "X-1"] }

AllOverrides ==
  [manufacturer |-> "Own", mpn |-> "OWN-1", description |-> "Own description",
   alternates |-> <<[manufacturer |-> "OALT", mpn |-> "O-1"]>>,
   image |-> "own.png", fields |-> [series |-> "X"]]

\* the keys an entry sets itself: none, one of them, all of them
EntryOverrides ==
  { <<>>, AllOverrides } \cup { [k \in {f} |-> AllOverrides[f]] : f \in DOMAIN AllOverrides }

PartConnectorEntries ==
  { Merge(Merge([pincount |-> 2], r), o) : r \in PartReferences, o \in EntryOverrides }
PartCableEntries ==
  { Merge(Merge([wirecount |-> MaxWires], r), o) : r \in PartReferences, o \in EntryOverrides }

PartDocuments ==
  { [metadata |-> ValidMetadata, parts |-> PartsSection,
     connectors |-> [J1 |-> e, J2 |-> FullConnector], cables |-> [W1 |-> PlainCable]] :
      e \in PartConnectorEntries }
  \cup
  { [metadata |-> ValidMetadata, parts |-> PartsSection,
     connectors |-> [J1 |-> FullConnector, J2 |-> FullConnector], cables |-> [W1 |-> e]] :
      e \in PartCableEntries }
  \cup
  { [metadata |-> ValidMetadata, parts |-> PartsSection,
     connectors |-> [J1 |-> [part |-> "P1", pincount |-> 2],
                     J2 |-> [part |-> "P1", pincount |-> 2]],
     cables |-> [W1 |-> PlainCable, W2 |-> e]] :
      e \in {PlainCable, [wirecount |-> MaxWires, pn |-> "P1",
                          length |-> [value |-> 15, unit |-> "m"]]} }
  \cup
  { [metadata |-> ValidMetadata, parts |-> PartsSection,
     connectors |-> [J1 |-> FullConnector, J2 |-> FullConnector],
     cables |-> [W1 |-> [part |-> "P1", wirecount |-> MaxWires,
                         length |-> [value |-> 25, unit |-> "m"]],
                 W2 |-> [part |-> "P1", wirecount |-> MaxWires,
                         length |-> [value |-> 10, unit |-> "m"]]],
     accessories |-> ListV(a)] :
      a \in {<<>>, <<[type |-> "heatshrink", part |-> StrV("P1"), qty |-> IntV(20)]>>} }

\* accessory entries: a library part, a library part with a quantity, an
\* unknown reference, no reference, an inline part, an inline part with a
\* part number only
AccessoryEntries ==
  { [type |-> "heatshrink", part |-> StrV("P1")],
    [type |-> "label", part |-> StrV("P1"), qty |-> IntV(20)],
    [type |-> "heatshrink", part |-> StrV("P9")],
    [type |-> "heatshrink", description |-> "Heat shrink"],
    [type |-> "sleeve", part |-> [pn |-> "PN-HS", mpn |-> "HS-1", description |-> "Sleeve"]],
    [type |-> "sleeve", part |-> [pn |-> "PN-HS"]] }

MaxAccessories == 2

AccessorySections ==
  { ListV(q) : q \in SeqsUpTo(AccessoryEntries, MaxAccessories) }
  \cup { [A1 |-> e] : e \in AccessoryEntries }

AccessoryDocuments ==
  { [metadata |-> ValidMetadata, parts |-> PartsSection,
     connectors |-> [J1 |-> FullConnector, J2 |-> FullConnector],
     cables |-> [W1 |-> PlainCable], accessories |-> a] : a \in AccessorySections }

InvalidMetadata == { [id |-> "WH-1", revision |-> "A", date |-> "2024-01-01", title |-> ""],
                     [id |-> "WH-1", title |-> "T"],
                     [id |-> "WH-1", title |-> "", revision |-> ""] }

SampleDocuments ==
  Contexts \cup {MinimalDocument}
  \cup { d \in InfoDocuments : Len(d.connection_info) <= 1 }
  \cup { d \in NativeDocuments : Len(d.connections) <= 1 }
  \cup { d \in BothDocuments : Len(d.connection_info) = 1 }

YamlDocuments ==
  Contexts \cup {MinimalDocument} \cup InfoDocuments \cup BothDocuments \cup NativeDocuments
  \cup PartDocuments \cup AccessoryDocuments
  \cup { With(d, "metadata", md) : d \in Contexts, md \in InvalidMetadata }

\* entities handed to the HarnessDocument constructor directly
ConnectorObject(id) ==
  [id |-> id, primary_pn |-> "PN-" \o id, manufacturer |-> "Unknown", mpn |-> "MPN-J",
   description |-> "Connector " \o id, pincount |-> 2, pinlabels |-> <<>>,
   alternates |-> <<>>, fields |-> <<>>, image |-> None]

CableObject(id, wirecount) ==
  [id |-> id, primary_pn |-> "PN-" \o id, manufacturer |-> "Unknown", mpn |-> "MPN-W",
   description |-> "Cable " \o id, wirecount |-> wirecount, cores |-> <<>>,
   gauge |-> "22 AWG", length |-> [value |-> 0, unit |-> "mm"],
   alternates |-> <<>>, fields |-> <<>>, image |-> None]

ConnectionObject(f, c, k, t) ==
  [from_connector |-> f, from_pin |-> IntV(1), cable |-> c, core |-> k,
   to_connector |-> t, to_pin |-> IntV(1), notes |-> None, signal_name |-> None,
   wire_label |-> None]

ConnectionObjects ==
  { ConnectionObject(f, c, k, t) :
      f \in {"J1", "J3"}, t \in {"J2", "J3"}, c \in {"W1", "W2"},
      k \in {0, MaxWires - 1, MaxWires} }

\* connections that follow the first: a valid one, a dangling connector, an
\* unknown cable, a core out of range
ConnectionRest ==
  { ConnectionObject("J1", "W1", 0, "J2"),
    ConnectionObject("J3", "W1", 0, "J2"),
    ConnectionObject("J1", "W2", 0, "J2"),
    ConnectionObject("J1", "W1", MaxWires, "J2") }

ObjectInputs ==
  { [metadata |-> ValidMetadata, parts |-> <<>>,
     connectors |-> [id \in {"J1", "J2"} |-> ConnectorObject(id)],
     cables |-> [id \in {"W1"} |-> CableObject(id, w)],
     connections |-> cs, accessories |-> <<>>] :
      w \in 1..MaxWires, cs \in Lists(ConnectionObjects, ConnectionRest, MaxConns) }

\* a Core already constructed (its index is never negative)
CoreObject(i) == [index |-> i, color |-> None, label |-> None, pair_group |-> None]

\* keyword arguments of Cable(...): every cores list of up to MaxWires + 1
\* cores with indices 0..MaxWires, against every wirecount 0..MaxWires
CableInputs ==
  { [CableObject("W1", w) EXCEPT !.cores = [i \in DOMAIN ix |-> CoreObject(ix[i])]] :
      w \in 0..MaxWires, ix \in SeqsUpTo(0..MaxWires, MaxWires + 1) }

\* keyword arguments of Connector(...): 0..MaxPins + 1 pin labels against
\* every pincount 0..MaxPins
ConnectorInputs ==
  { [ConnectorObject("J1") EXCEPT !.pincount = n, !.pinlabels = SubSeq(PinLabelNames, 1, k)] :
      n \in 0..MaxPins, k \in 0..(MaxPins + 1) }

\* pin arguments: integers and strings, numeric or not, below 1 or not
PinValues ==
  { IntV(n) : n \in -1..MaxPins }
  \cup { StrV(s) : s \in {"-1", "0", "1", "2", "A", ""} }

\* keyword arguments of Connection(...)
ConnectionInputs ==
  { [ConnectionObject("J1", "W1", IntV(0), "J2") EXCEPT !.from_pin = p, !.to_pin = q] :
      p \in PinValues, q \in PinValues }

\* documents for the wiring table: a cable without cores, with cores in
\* index order and in reverse order (the first core labelled and paired),
\* and connections with and without wire_label and signal_name
TableCore(i) ==
  [index |-> i, color |-> ColorSpec(ColorNames[i + 1], ColorNames[i + 1], NoneSeq),
   label |-> IF i = 0 THEN "VCC" ELSE None,
   pair_group |-> IF i = 0 THEN "1" ELSE None]

TableCores ==
  { <<>>,
    [i \in 1..MaxWires |-> TableCore(i - 1)],
    [i \in 1..MaxWires |-> TableCore(MaxWires - i)] }

TableConnection(k, wire_label, signal_name) ==
  [ConnectionObject("J1", "W1", k, "J2") EXCEPT
     !.wire_label = wire_label, !.signal_name = signal_name]

TableInputs ==
  { [metadata |-> ValidMetadata, parts |-> <<>>,
     connectors |-> [id \in {"J1", "J2"} |-> ConnectorObject(id)],
     cables |-> [id \in {"W1"} |-> [CableObject(id, MaxWires) EXCEPT !.cores = cores]],
     connections |-> cs, accessories |-> <<>>] :
      cores \in TableCores,
      cs \in Lists({ TableConnection(k, w, n) :
                       k \in 0..(MaxWires - 1), w \in {None, "WL"}, n \in {None, "SIG"} },
                   { TableConnection(0, None, None), TableConnection(0, "WL", "SIG") },
                   MaxConns) }

(***************************************************************************)
(* The state machine: an input is given, then parsed or constructed.       *)
(***************************************************************************)
NoResult == [ok |-> FALSE, err |-> [type |-> "NoResult"]]

\* no generator or check has been called on the document
NothingReturned == <<>>

\* no BOM has been extracted
NoBom == <<>>

\* ConnectionGroup(name=...): connections defaults to the empty list
ConnectionGroup(name) == [name |-> name, connections |-> <<>>]

\* connections a caller appends to a finished document: one that resolves
\* in every document of the model and one that names no connector of any
AppendedConnections ==
  { ConnectionObject("J1", "W1", 0, "J2"), ConnectionObject("J9", "W1", 0, "J2") }

(***************************************************************************)
(* generators/wireviz_yaml.py: _build_connections                          *)
(***************************************************************************)
\* key = (conn.from_connector, conn.cable, conn.to_connector)
GroupKey(conn) == <<conn.from_connector, conn.cable, conn.to_connector>>

AppendNew(keys, key) == IF \E i \in DOMAIN keys : keys[i] = key THEN keys ELSE Append(keys, key)

\* the keys of connection_groups in insertion order
RECURSIVE GroupKeys(_)
GroupKeys(connections) ==
  IF connections = <<>> THEN <<>>
  ELSE AppendNew(GroupKeys(SubSeq(connections, 1, Len(connections) - 1)),
                 GroupKey(connections[Len(connections)]))

\* (conn.from_pin, conn.core + 1, conn.to_pin)
PinsCores(conn) == <<conn.from_pin, IntV(conn.core + 1), conn.to_pin>>

\* key=lambda x: (x[0] if isinstance(x[0], int) else 0)
SortKey(x) == IF IsInt(x[1]) THEN x[1].int ELSE 0

\* x placed after the entries of a sorted list whose key is not greater
InsertStable(sorted, x) ==
  SelectSeq(sorted, LAMBDA y : SortKey(y) <= SortKey(x)) \o <<x>>
    \o SelectSeq(sorted, LAMBDA y : SortKey(y) > SortKey(x))

\* pins_cores.sort(key=...): a stable sort
RECURSIVE SortByFromPin(_)
SortByFromPin(pins_cores) ==
  IF pins_cores = <<>> THEN <<>>
  ELSE InsertStable(SortByFromPin(SubSeq(pins_cores, 1, Len(pins_cores) - 1)),
                    pins_cores[Len(pins_cores)])

\* connection_groups[key]
GroupEntries(connections, key) ==
  [i \in DOMAIN SelectSeq(connections, LAMBDA c : GroupKey(c) = key) |->
     PinsCores(SelectSeq(connections, LAMBDA c : GroupKey(c) = key)[i])]

\* [{from_conn: from_pins}, {cable_id: cores}, {to_conn: to_pins}]
GroupEntry(key, pins_cores) ==
  Group3(key[1], [i \in DOMAIN pins_cores |-> pins_cores[i][1]],
         key[2], [i \in DOMAIN pins_cores |-> pins_cores[i][2]],
         key[3], [i \in DOMAIN pins_cores |-> pins_cores[i][3]])

_build_connections(document) ==
  [k \in DOMAIN GroupKeys(document.connections) |->
     GroupEntry(GroupKeys(document.connections)[k],
                SortByFromPin(GroupEntries(document.connections,
                                           GroupKeys(document.connections)[k])))]

MaxColorLen == 4

\* the characters colour strings are spelled with
ColorChars == {"B", "U", "b", "-", "1", " "}

\* the colour strings of the documentation and of tests/test_models.py
ColorExamples == {<<"B", "U", "-", "W", "H">>, <<"B", "U", "W", "H">>, <<"B", "K">>,
                  <<"b", "u", "-", "W", "H">>, <<"R", "D", "-", "B", "K", "-", "W", "H">>,
                  <<" ", "B", "U", " ", "-", " ", "W", "H", " ">>}

\* the arguments of ColorSpec.parse
ColorInputs ==
  UNION { [1..n -> ColorChars] : n \in 0..MaxColorLen } \cup ColorExamples

Init ==
  /\ pc = "start"
  /\ result = NoResult
  /\ steps = <<>>
  /\ derived = NotRun
  /\ group = ConnectionGroup("G")
  /\ bom = NoBom
  /\ returned = NothingReturned
  /\ \/ raw \in { [kind |-> "yaml", path |-> Path, data |-> d] : d \in YamlDocuments }
     \/ raw \in { [kind |-> "yaml", path |-> p, data |-> Without(d, "metadata")] :
                    p \in Paths, d \in SampleDocuments }
     \/ raw \in { [kind |-> "objects", kw |-> kw] : kw \in ObjectInputs \cup TableInputs }
     \/ raw \in { [kind |-> "cable", kw |-> kw] : kw \in CableInputs }
     \/ raw \in { [kind |-> "connector", kw |-> kw] : kw \in ConnectorInputs }
     \/ raw \in { [kind |-> "connection", kw |-> kw] : kw \in ConnectionInputs }
     \/ raw \in { [kind |-> "color", color_str |-> x] : x \in ColorInputs }

\* parse_harness_yaml(path) on the mapping that load_yaml_file returned
ParseHarnessYaml ==
  /\ pc = "start"
  /\ raw.kind = "yaml"
  /\ \E out \in {parse_harness_yaml(raw.data, raw.path)} :
        /\ result' = out.res
        /\ steps' = out.steps
        /\ derived' = out.connections
  /\ pc' = "done"
  /\ UNCHANGED <<raw, group, bom, returned>>

\* HarnessDocument(...) called with entities built by the caller
ConstructHarnessDocument ==
  /\ pc = "start"
  /\ raw.kind = "objects"
  /\ result' = HarnessDocument(raw.kw)
  /\ pc' = "done"
  /\ UNCHANGED <<raw, steps, derived, group, bom, returned>>

\* Cable(...) called with the caller's keyword arguments
ConstructCable ==
  /\ pc = "start"
  /\ raw.kind = "cable"
  /\ result' = Cable(raw.kw)
  /\ pc' = "done"
  /\ UNCHANGED <<raw, steps, derived, group, bom, returned>>

\* Connector(...) called with the caller's keyword arguments
ConstructConnector ==
  /\ pc = "start"
  /\ raw.kind = "connector"
  /\ result' = Connector(raw.kw)
  /\ pc' = "done"
  /\ UNCHANGED <<raw, steps, derived, group, bom, returned>>

\* Connection(...) called with the caller's keyword arguments
ConstructConnection ==
  /\ pc = "start"
  /\ raw.kind = "connection"
  /\ result' = Connection(raw.kw)
  /\ pc' = "done"
  /\ UNCHANGED <<raw, steps, derived, group, bom, returned>>

\* ColorSpec.parse(color_str)
ParseColor ==
  /\ pc = "start"
  /\ raw.kind = "color"
  /\ result' = ColorSpec_parse(raw.color_str)
  /\ pc' = "done"
  /\ UNCHANGED <<raw, steps, derived, group, bom, returned>>

\* ColorSpec.parse(str(color)) on a ColorSpec that parse returned
ReparseColor ==
  /\ pc = "done"
  /\ raw.kind = "color"
  /\ result.ok
  /\ returned' = ColorSpec_parse(ColorSpec_str(result.val))
  /\ pc' = "reparsed"
  /\ UNCHANGED <<raw, result, steps, derived, group, bom>>

\* a HarnessDocument is held by the caller
HasDocument == pc = "done" /\ raw.kind \in {"yaml", "objects"} /\ result.ok

\* doc.connections.append(c): the list is mutable and nothing is validated
AppendConnection ==
  /\ HasDocument
  /\ \E c \in AppendedConnections :
        result' = [result EXCEPT !.val.connections = Append(@, c)]
  /\ pc' = "mutated"
  /\ UNCHANGED <<raw, steps, derived, group, bom, returned>>

\* doc.cables = {}: HarnessDocument is not frozen and does not validate
\* assignments
AssignCables ==
  /\ HasDocument
  /\ result' = [result EXCEPT !.val.cables = <<>>]
  /\ pc' = "mutated"
  /\ UNCHANGED <<raw, steps, derived, group, bom, returned>>

\* core.color.display_color = ...: ColorSpec is frozen, the assignment raises
AssignDisplayColor ==
  /\ HasDocument
  /\ \E id \in DOMAIN result.val.cables : result.val.cables[id].cores # <<>>
  /\ pc' = "rejected"
  /\ UNCHANGED <<raw, result, steps, derived, group, bom, returned>>

\* _extract_bom_items(document) on a document just parsed or constructed
ExtractBomItems ==
  /\ HasDocument
  /\ bom' = _extract_bom_items(result.val)
  /\ pc' = "bom"
  /\ UNCHANGED <<raw, result, steps, derived, group, returned>>

\* _build_wiring_table_rows(document) on a document just parsed or constructed
BuildWiringTableRows ==
  /\ HasDocument
  /\ returned' = _build_wiring_table_rows(result.val)
  /\ pc' = "wiring_table"
  /\ UNCHANGED <<raw, result, steps, derived, group, bom>>

\* document.validate_complete() on a document just parsed or constructed:
\* the method reads the document and assigns nothing to it
ValidateComplete ==
  /\ HasDocument
  /\ returned' = validate_complete(result.val)
  /\ pc' = "validated"
  /\ UNCHANGED <<raw, result, steps, derived, group, bom>>

\* _build_connections(document)
BuildConnections ==
  /\ HasDocument
  /\ returned' = _build_connections(result.val)
  /\ pc' = "wireviz"
  /\ UNCHANGED <<raw, result, steps, derived, group, bom>>

\* _derive_connections_from_wireviz on the groups that _build_connections
\* returned, with the cables of the document
DeriveBuiltConnections ==
  /\ pc = "wireviz"
  /\ derived' = _derive_connections_from_wireviz(returned, result.val.cables)
  /\ pc' = "rederived"
  /\ UNCHANGED <<raw, result, steps, group, bom, returned>>

\* group.add_connection(connection) with a Connection just constructed
add_connection ==
  /\ pc = "done"
  /\ raw.kind = "connection"
  /\ result.ok
  /\ group' = [group EXCEPT !.connections = Append(@, result.val)]
  /\ pc' = "grouped"
  /\ UNCHANGED <<raw, result, steps, derived, bom, returned>>

Next ==
  \/ ParseHarnessYaml
  \/ ConstructHarnessDocument
  \/ ConstructCable
  \/ ConstructConnector
  \/ ConstructConnection
  \/ AppendConnection
  \/ AssignCables
  \/ AssignDisplayColor
  \/ add_connection
  \/ ExtractBomItems
  \/ BuildWiringTableRows
  \/ ValidateComplete
  \/ ParseColor
  \/ ReparseColor
  \/ BuildConnections
  \/ DeriveBuiltConnections

Spec == Init /\ [][Next]_vars

(***************************************************************************)
(* Properties.                                                             *)
(***************************************************************************)
Done == pc = "done"
Parsed == Done /\ raw.kind = "yaml"
Constructed == Done /\ raw.kind = "objects"

\* the section parsers' results for the current input, as the parse computes
\* them
ParsedParts == _parse_parts(Get(raw.data, "parts", <<>>)).val
ParsedConnectors == _parse_connectors(Get(raw.data, "connectors", <<>>), ParsedParts).val
ParsedCables == _parse_cables(Get(raw.data, "cables", <<>>), ParsedParts).val

\* the HarnessDocument constructor was called
ConstructorCalled ==
  \/ Constructed
  \/ /\ Parsed /\ derived.ok /\ steps # <<>> /\ steps[Len(steps)] = "accessories"
     /\ _parse_accessories(Get(raw.data, "accessories", ListV(<<>>)), ParsedParts).ok

\* the connections, connectors and cables handed to the constructor
GivenConnections == IF raw.kind = "objects" THEN raw.kw.connections ELSE derived.val
GivenConnectors == IF raw.kind = "objects" THEN raw.kw.connectors ELSE ParsedConnectors
GivenCables == IF raw.kind = "objects" THEN raw.kw.cables ELSE ParsedCables

Resolves(c, connectors, cables) ==
  /\ c.from_connector \in DOMAIN connectors
  /\ c.to_connector \in DOMAIN connectors
  /\ c.cable \in DOMAIN cables
  /\ c.core < cables[c.cable].wirecount

\* C1: every HarnessDocument that construction returns, directly or through
\* parse_harness_yaml, holds exactly the connections it was given and each of
\* them resolves: from_connector and to_connector are keys of connectors,
\* cable is a key of cables and core < cables[cable].wirecount.  Hence
\* construction fails whenever a given connection violates one of these.
C1_ReferentialIntegrity ==
  (ConstructorCalled /\ result.ok) =>
     /\ result.val.connections = GivenConnections
     /\ \A i \in DOMAIN result.val.connections :
          Resolves(result.val.connections[i], result.val.connectors, result.val.cables)

C1_Witness ==
  /\ Parsed /\ result.ok
  /\ Len(result.val.connections) >= 2
  /\ \E i \in DOMAIN result.val.connections :
       result.val.connections[i].core = result.val.cables["W1"].wirecount - 1

\* the violations of a connection list: (0-based position, field, name)
Violations(connections, connectors, cables) ==
  { [conn |-> i - 1, field |-> "from_connector", name |-> connections[i].from_connector] :
      i \in {j \in DOMAIN connections : connections[j].from_connector \notin DOMAIN connectors} }
  \cup
  { [conn |-> i - 1, field |-> "to_connector", name |-> connections[i].to_connector] :
      i \in {j \in DOMAIN connections : connections[j].to_connector \notin DOMAIN connectors} }
  \cup
  { [conn |-> i - 1, field |-> "cable", name |-> connections[i].cable] :
      i \in {j \in DOMAIN connections : connections[j].cable \notin DOMAIN cables} }
  \cup
  { [conn |-> i - 1, field |-> "core", name |-> connections[i].cable] :
      i \in {j \in DOMAIN connections :
               /\ connections[j].cable \in DOMAIN cables
               /\ connections[j].core >= cables[connections[j].cable].wirecount} }

\* the entries of the one error that construction raised
ReportedLines ==
  IF raw.kind = "objects" THEN result.err.errors[1].lines ELSE result.err.details[1].lines

ReportedErrors == IF raw.kind = "objects" THEN result.err.errors ELSE result.err.details

\* C2: when the given connections contain violations, construction raises a
\* single error that lists every violation exactly once, in connection
\* order; a connection naming cable W2 when only W1 exists gives an entry
\* that names W2.
C2_BatchedReport ==
  (ConstructorCalled /\ Violations(GivenConnections, GivenConnectors, GivenCables) # {}) =>
     /\ ~result.ok
     /\ Len(ReportedErrors) = 1
     /\ { [conn |-> ReportedLines[k].conn, field |-> ReportedLines[k].field,
           name |-> ReportedLines[k].name] : k \in DOMAIN ReportedLines }
          = Violations(GivenConnections, GivenConnectors, GivenCables)
     /\ Len(ReportedLines) = Cardinality(Violations(GivenConnections, GivenConnectors, GivenCables))
     /\ \A k, l \in DOMAIN ReportedLines : k < l => ReportedLines[k].conn <= ReportedLines[l].conn
     /\ \A i \in DOMAIN GivenConnections :
          (GivenConnections[i].cable = "W2" /\ DOMAIN GivenCables = {"W1"}) =>
             \E k \in DOMAIN ReportedLines :
                ReportedLines[k].field = "cable" /\ ReportedLines[k].name = "W2"

C2_Witness ==
  /\ Parsed /\ ConstructorCalled /\ ~result.ok
  /\ Cardinality(Violations(GivenConnections, GivenConnectors, GivenCables)) >= 3
  /\ \E k \in DOMAIN ReportedLines : ReportedLines[k].field = "cable" /\ ReportedLines[k].name = "W2"
  /\ \E k \in DOMAIN ReportedLines : ReportedLines[k].field = "core"

\* C3: parsing the minimal scenario document succeeds and yields 2
\* connectors, 1 cable and 2 connections whose core values are 0 and 1.
C3_MinimalDocumentParses ==
  (Parsed /\ raw.data = MinimalDocument) =>
     /\ result.ok
     /\ Cardinality(DOMAIN result.val.connectors) = 2
     /\ Cardinality(DOMAIN result.val.cables) = 1
     /\ [i \in DOMAIN result.val.connections |-> result.val.connections[i].core] = <<0, 1>>

\* the connection step of the parse ran, on the connection_info key or on
\* the connections key
InfoPath == Parsed /\ derived # NotRun /\ "connection_info" \in DOMAIN raw.data
NativePath ==
  /\ Parsed /\ derived # NotRun
  /\ "connection_info" \notin DOMAIN raw.data
  /\ "connections" \in DOMAIN raw.data

Tuple(c) == <<c.from_connector, c.from_pin, c.cable, c.core, c.to_connector, c.to_pin>>
Tuples(conns) == { Tuple(conns[i]) : i \in DOMAIN conns }
TupleSeq(conns) == [i \in DOMAIN conns |-> Tuple(conns[i])]

\* the wires a connection_info list states: (from, pin, cable, core, to, pin)
EntryWires(L) ==
  { <<L[i].from, L[i].pin, L[i].cable, L[i].core.int, L[i].to, L[i].pin>> : i \in DOMAIN L }

\* a group of three single-key mappings with lists of one length
ThreeLists(g) ==
  /\ IsList(g) /\ Len(g.list) = 3
  /\ \A k \in 1..3 : /\ IsMap(g.list[k]) /\ Len(g.list[k].map) = 1
                     /\ IsList(g.list[k].map[1].val)
  /\ \A k \in 2..3 : Len(g.list[k].map[1].val.list) = Len(g.list[1].map[1].val.list)

\* the wires a group states when its c-th mapping is read as the cable and
\* its t-th as the destination
GroupWires(g, c, t) ==
  { <<g.list[1].map[1].key, g.list[1].map[1].val.list[i],
      g.list[c].map[1].key, g.list[c].map[1].val.list[i].int,
      g.list[t].map[1].key, g.list[t].map[1].val.list[i]>> :
      i \in DOMAIN g.list[1].map[1].val.list }

\* the native list G states the straight-through wiring of the list L
Describes(G, L) ==
  /\ \A k \in DOMAIN G :
       /\ ThreeLists(G[k])
       /\ \A i \in DOMAIN G[k].list[2].map[1].val.list :
            /\ IsInt(G[k].list[2].map[1].val.list[i])
            /\ IsInt(G[k].list[3].map[1].val.list[i])
  /\ \E cableThird \in [DOMAIN G -> BOOLEAN] :
       UNION { IF cableThird[k] THEN GroupWires(G[k], 3, 2) ELSE GroupWires(G[k], 2, 3)
               : k \in DOMAIN G } = EntryWires(L)

\* C4: for the same connectors and cables, when a connection_info list with
\* 1-based cores parses, a WireViz-native list describing the same
\* straight-through wiring parses too, to the same set of (from_connector,
\* from_pin, cable, core, to_connector, to_pin) tuples.
C4_SameTuples ==
  ( /\ Parsed /\ result.ok
    /\ "connection_info" \in DOMAIN raw.data /\ "connections" \in DOMAIN raw.data
    /\ \A i \in DOMAIN raw.data.connection_info : raw.data.connection_info[i].core.int >= 1
    /\ Describes(raw.data.connections, raw.data.connection_info) ) =>
     LET native == parse_harness_yaml(Without(raw.data, "connection_info"), raw.path).res
     IN /\ native.ok
        /\ Tuples(native.val.connections) = Tuples(result.val.connections)

StrategiesRun == SelectSeq(steps, LAMBDA x : x \in {"connection_info", "connections"})

\* C5: the connection list comes from exactly one strategy chosen by key
\* presence.  With connection_info present (even empty) only
\* _parse_connection_info runs and removing the connections key changes
\* nothing of the outcome; otherwise with connections present only the
\* native derivation runs; with neither key the list is empty and the
\* document is built with no connection.
C5_OneStrategy ==
  (Parsed /\ derived # NotRun) =>
     /\ "connection_info" \in DOMAIN raw.data =>
          /\ StrategiesRun = <<"connection_info">>
          /\ derived = _parse_connection_info(raw.data.connection_info)
          /\ parse_harness_yaml(Without(raw.data, "connections"), raw.path)
               = [res |-> result, steps |-> steps, connections |-> derived]
     /\ ("connection_info" \notin DOMAIN raw.data /\ "connections" \in DOMAIN raw.data) =>
          /\ StrategiesRun = <<"connections">>
          /\ derived = _derive_connections_from_wireviz(raw.data.connections, ParsedCables)
     /\ ("connection_info" \notin DOMAIN raw.data /\ "connections" \notin DOMAIN raw.data) =>
          /\ StrategiesRun = <<>>
          /\ derived = Ok(<<>>)
          /\ ConstructorCalled => (result.ok /\ result.val.connections = <<>>)

\* both keys present, the connection_info list empty, the connections list
\* stating a wire
C5_Witness ==
  /\ Parsed /\ result.ok
  /\ "connection_info" \in DOMAIN raw.data /\ "connections" \in DOMAIN raw.data
  /\ raw.data.connection_info = <<>>
  /\ raw.data.connections = OtherGroups
  /\ result.val.connections = <<>>

\* C6: in the connection_info path the output has one Connection per entry,
\* in input order; the entry (from F, pin P, cable C, core c >= 1, to T)
\* gives from_connector F, to_connector T, cable C, core c-1 and
\* from_pin = to_pin = P, and a label gives signal_name and wire_label.
C6_InfoMapping ==
  InfoPath =>
     /\ derived.ok
     /\ Len(derived.val) = Len(raw.data.connection_info)
     /\ \A i \in DOMAIN raw.data.connection_info :
          LET e == raw.data.connection_info[i]
              c == derived.val[i]
          IN /\ c.from_connector = e.from /\ c.to_connector = e.to /\ c.cable = e.cable
             /\ c.from_pin = e.pin /\ c.to_pin = e.pin
             /\ e.core.int >= 1 => c.core = e.core.int - 1
             /\ "label" \in DOMAIN e => (c.signal_name = e.label /\ c.wire_label = e.label)
             /\ "label" \notin DOMAIN e => (c.signal_name = None /\ c.wire_label = None)

C6_Witness ==
  /\ InfoPath /\ derived.ok /\ Len(derived.val) = MaxConns
  /\ derived.val[1].core = MaxWires - 1 /\ derived.val[1].from_pin = IntV(1)
  /\ derived.val[MaxConns].signal_name = "SIG" /\ derived.val[MaxConns].wire_label = "SIG"
  /\ derived.val[MaxConns].core = 0

\* a pin that Connection accepts as written
ValidPin(p) == IF IsInt(p) THEN p.int >= 1
               ELSE IsStr(p) /\ p.str # "" /\ p.str \notin DOMAIN NumericStrings

\* the position (2 or 3) of the cable mapping of a group of three
CableSide(g, cables) == IF g.list[2].map[1].key \in DOMAIN cables THEN 2 ELSE 3

\* a group [{F: fp}, X, Y]: exactly one of X, Y names a parsed cable; fp, cs
\* and tp have one length; the cores are 1-based numbers, the pins valid
Proper(g, cables) ==
  /\ ThreeLists(g)
  /\ (g.list[2].map[1].key \in DOMAIN cables) # (g.list[3].map[1].key \in DOMAIN cables)
  /\ \A i \in DOMAIN g.list[1].map[1].val.list :
       /\ ValidPin(g.list[1].map[1].val.list[i])
       /\ ValidPin(g.list[5 - CableSide(g, cables)].map[1].val.list[i])
       /\ IsInt(g.list[CableSide(g, cables)].map[1].val.list[i])
       /\ g.list[CableSide(g, cables)].map[1].val.list[i].int >= 1

\* (F, fp[i], C, cs[i]-1, T, tp[i]) for i = 1..n
ExpectedTuples(g, cables) ==
  LET c == CableSide(g, cables)
      t == 5 - c
  IN [i \in DOMAIN g.list[1].map[1].val.list |->
        <<g.list[1].map[1].key, g.list[1].map[1].val.list[i],
          g.list[c].map[1].key, g.list[c].map[1].val.list[i].int - 1,
          g.list[t].map[1].key, g.list[t].map[1].val.list[i]>>]

\* C7: in the connections path a group [{F: fp}, X, Y], where exactly one
\* of X, Y has a parsed cable id C as key (value cs, 1-based cores), the
\* other has key T (value tp), in either order, and fp, cs, tp have length
\* n, yields exactly n Connections, the i-th being (F, fp[i], C, cs[i]-1,
\* T, tp[i]); a list of such groups yields them group after group.
C7_GroupMapping ==
  ( /\ NativePath /\ raw.data.connections # <<>>
    /\ \A k \in DOMAIN raw.data.connections : Proper(raw.data.connections[k], ParsedCables) ) =>
     /\ derived.ok
     /\ TupleSeq(derived.val)
          = Flatten([k \in DOMAIN raw.data.connections |->
                       ExpectedTuples(raw.data.connections[k], ParsedCables)])

\* two groups, the first naming the cable last and stating MaxPins wires
C7_Witness ==
  /\ NativePath /\ derived.ok
  /\ Len(raw.data.connections) = 2
  /\ \A k \in DOMAIN raw.data.connections : Proper(raw.data.connections[k], ParsedCables)
  /\ CableSide(raw.data.connections[1], ParsedCables) = 3
  /\ CableSide(raw.data.connections[2], ParsedCables) = 2
  /\ Len(derived.val) = 2 * MaxPins

\* a group with fewer than 2 elements, or with no element after the first
\* whose key is a parsed cable id
Skipped(g, cables) ==
  /\ IsList(g)
  /\ \/ Len(g.list) < 2
     \/ \A k \in 2..Len(g.list) :
          \A m \in DOMAIN ElementPairs(g.list[k]) :
             ElementPairs(g.list[k])[m].key \notin DOMAIN cables

\* C8: in the connections path a group with fewer than 2 elements, or with
\* no element after the first whose key is a parsed cable id, raises no
\* error and contributes no Connection: the derivation gives what it gives
\* for the list without these groups, and the empty list when every group is
\* one of them; with the other groups well formed, the Connections are
\* exactly theirs.
C8_SkippedGroups ==
  NativePath =>
     LET kept == SelectSeq(raw.data.connections, LAMBDA g : ~Skipped(g, ParsedCables))
     IN /\ derived = _derive_connections_from_wireviz(kept, ParsedCables)
        /\ kept = <<>> => derived = Ok(<<>>)
        /\ (\A k \in DOMAIN kept : Proper(kept[k], ParsedCables)) =>
             /\ derived.ok
             /\ TupleSeq(derived.val)
                  = Flatten([k \in DOMAIN kept |-> ExpectedTuples(kept[k], ParsedCables)])

\* a skipped group (unknown cable W2) before a group that gives Connections
C8_Witness ==
  /\ NativePath /\ derived.ok
  /\ Len(raw.data.connections) = 2
  /\ Skipped(raw.data.connections[1], ParsedCables)
  /\ Len(raw.data.connections[1].list) = 3
  /\ Proper(raw.data.connections[2], ParsedCables)
  /\ Len(derived.val) = MaxPins

\* C9: in the connections path, a Connection of the resulting document
\* whose cable has a Core at its 0-based index carries wire_label equal to
\* that Core's label and pair_group equal to that Core's pair_group.
C9_CoreAttributes ==
  (NativePath /\ result.ok) =>
     \A i \in DOMAIN result.val.connections :
        LET c == result.val.connections[i]
            cores == result.val.cables[c.cable].cores
        IN c.core < Len(cores) =>
             /\ c.wire_label = cores[c.core + 1].label
             /\ "pair_group" \in DOMAIN c
             /\ c.pair_group = cores[c.core + 1].pair_group

\* C10: for a raw mapping without a metadata key parse_harness_yaml fails
\* with the ParserError "Missing required 'metadata' section" carrying the
\* source path, and no section has been parsed, whatever the other
\* sections hold.
C10_MetadataFirst ==
  (Parsed /\ "metadata" \notin DOMAIN raw.data) =>
     /\ ~result.ok
     /\ result.err = ParserError("Missing required 'metadata' section", raw.path, <<>>)
     /\ steps = <<>>
     /\ derived = NotRun

\* no metadata, connectors that do not validate, connections present
C10_Witness ==
  /\ Parsed /\ "metadata" \notin DOMAIN raw.data
  /\ raw.path = "other.yml" /\ ~result.ok /\ result.err.path = "other.yml"
  /\ raw.data.connectors["J1"] = BareConnector

\* the required metadata strings that are empty once the defaults of
\* _parse_metadata are taken
EmptyMetadataFields(md) ==
  { f \in {"id", "title", "revision", "date"} :
      Get(md, f, CASE f = "id" -> "UNKNOWN"
                   [] f = "title" -> "Untitled Harness"
                   [] f = "revision" -> "A"
                   [] OTHER -> "") = "" }

\* C11: parse_harness_yaml returns a HarnessDocument or raises ParserError
\* with a message and the source path, and no other exception; a validation
\* failure has one detail per validation error (one per empty required
\* metadata field, one for the connection references).
C11_ErrorPolicy ==
  Parsed =>
     \/ /\ result.ok
        /\ DOMAIN result.val
             = {"metadata", "parts", "connectors", "cables", "connections", "accessories"}
     \/ /\ ~result.ok
        /\ result.err.type = "ParserError"
        /\ result.err.path = raw.path
        /\ result.err.message
             \in {"Missing required 'metadata' section", "Validation failed", "Unexpected error"}
        /\ steps = <<"metadata">> =>
             /\ result.err.message = "Validation failed"
             /\ Len(result.err.details) = Cardinality(EmptyMetadataFields(raw.data.metadata))
        /\ (ConstructorCalled
              /\ Violations(GivenConnections, GivenConnectors, GivenCables) # {}) =>
             /\ result.err.message = "Validation failed"
             /\ Len(result.err.details) = 1

\* a TypeError raised by the derivation (a core that is not a number)
\* leaves as a ParserError
C11_Witness ==
  /\ Parsed /\ ~result.ok
  /\ ~derived.ok /\ derived # NotRun /\ derived.err.type = "TypeError"
  /\ result.err = ParserError("Unexpected error", raw.path, <<>>)

\* the part an entry names (pn first, then part), None when it names none
ReferenceOf(e) ==
  IF "pn" \in DOMAIN e THEN e.pn ELSE IF "part" \in DOMAIN e THEN e.part ELSE None

\* the entry's own value of a field if it has the key, the part's otherwise
OwnOrPart(e, part, f) == IF f \in DOMAIN e THEN e[f] ELSE part[f]

\* a parsed component takes each inherited field from its entry e where e
\* has the key and from the part elsewhere
Inherits(c, e, part) ==
  /\ \A f \in {"manufacturer", "mpn", "description", "alternates", "image"} :
       c[f] = OwnOrPart(e, part, f)
  /\ DOMAIN c.fields = DOMAIN part.fields \cup DOMAIN Get(e, "fields", <<>>)
  /\ \A k \in DOMAIN c.fields : c.fields[k] = OwnOrPart(Get(e, "fields", <<>>), part.fields, k)

\* the entries of a section of the input that name a part of the parts table
ResolvedEntries(section) ==
  { id \in DOMAIN section : ReferenceOf(section[id]) \in DOMAIN Get(raw.data, "parts", <<>>) }

\* C12: a parsed connector or cable whose entry references a part of the
\* parts table has, for each of manufacturer, mpn, description, alternates,
\* image and each custom field, the entry's own value if the entry has the
\* key and the part's value otherwise.
C12_FieldByField ==
  (Parsed /\ result.ok) =>
     /\ \A id \in ResolvedEntries(raw.data.connectors) :
          Inherits(result.val.connectors[id], raw.data.connectors[id],
                   result.val.parts[ReferenceOf(raw.data.connectors[id])])
     /\ \A id \in ResolvedEntries(raw.data.cables) :
          Inherits(result.val.cables[id], raw.data.cables[id],
                   result.val.parts[ReferenceOf(raw.data.cables[id])])

\* the connector entries of the input without a part of the parts table
UnresolvedEntries(section) == DOMAIN section \ ResolvedEntries(section)

\* C13 as stated: a parsed Connector whose entry has no part reference, or
\* one that is not a key of the parts table, has primary_pn 'PN-<id>' and
\* manufacturer 'Unknown' unless the entry gives a manufacturer.
C13_DefaultIdentity ==
  (Parsed /\ result.ok) =>
     \A id \in UnresolvedEntries(raw.data.connectors) :
        /\ result.val.connectors[id].primary_pn = "PN-" \o id
        /\ result.val.connectors[id].manufacturer
             = Get(raw.data.connectors[id], "manufacturer", "Unknown")

\* C13, amended: such a Connector has the entry's pn as primary_pn when the
\* entry has a pn key and 'PN-<id>' otherwise, and manufacturer 'Unknown'
\* unless the entry gives a manufacturer.
C13_DefaultIdentityOrOwnPn ==
  (Parsed /\ result.ok) =>
     \A id \in UnresolvedEntries(raw.data.connectors) :
        /\ result.val.connectors[id].primary_pn
             = Get(raw.data.connectors[id], "pn", "PN-" \o id)
        /\ result.val.connectors[id].manufacturer
             = Get(raw.data.connectors[id], "manufacturer", "Unknown")

\* an unresolved part reference next to a parts table
C13_Witness ==
  /\ Parsed /\ result.ok
  /\ "parts" \in DOMAIN raw.data
  /\ ReferenceOf(raw.data.connectors["J1"]) = "P9"
  /\ result.val.connectors["J1"].primary_pn = "PN-J1"
  /\ result.val.connectors["J1"].manufacturer = "Unknown"

\* the input without its accessories section
WithoutAccessories == [k \in DOMAIN raw.data \ {"accessories"} |-> raw.data[k]]

\* the accessory entries of the input in order, for both forms of the section
AccessoryItems ==
  IF IsList(raw.data.accessories) THEN raw.data.accessories.list
  ELSE [i \in DOMAIN Keys(raw.data.accessories) |->
          raw.data.accessories[Keys(raw.data.accessories)[i]]]

\* the part key of an accessory entry names an entry of the parts table
NamesLibraryPart(e) ==
  /\ "part" \in DOMAIN e
  /\ IsStr(e.part)
  /\ e.part.str \in DOMAIN Get(raw.data, "parts", <<>>)

\* C14: a document that parses without its accessories section parses with
\* it, in list and in dict form, into one Accessory per entry; the part of
\* an Accessory whose entry names a part of the parts table is that Part.
C14_AccessoriesParse ==
  (Parsed /\ "accessories" \in DOMAIN raw.data
          /\ TryParse(WithoutAccessories, raw.path).res.ok) =>
     /\ result.ok
     /\ Len(result.val.accessories) = Len(AccessoryItems)
     /\ \A i \in DOMAIN AccessoryItems :
          NamesLibraryPart(AccessoryItems[i]) =>
             result.val.accessories[i].part = result.val.parts[AccessoryItems[i].part.str]

\* the indices of a cores list are a permutation of range(wirecount)
IsPermutation(cores, wirecount) ==
  /\ Len(cores) = wirecount
  /\ { cores[i].index : i \in DOMAIN cores } = 0..(wirecount - 1)

ColoredEntries ==
  { id \in DOMAIN Get(raw.data, "cables", <<>>) :
      Get(raw.data.cables[id], "colors", <<>>) # <<>> }

\* a Cable has n cores indexed 0..n-1
IndexedCores(cable, n) ==
  /\ Len(cable.cores) = n
  /\ \A i \in 1..n : cable.cores[i].index = i - 1

\* the input with the wirecount key of cable entry id removed
InferredInput(id) ==
  [raw.data EXCEPT !.cables[id] =
     [k \in DOMAIN raw.data.cables[id] \ {"wirecount"} |-> raw.data.cables[id][k]]]

\* C16 as stated: the Cable parsed from an entry with n colors and no
\* wirecount key has wirecount n and cores 0..n-1, and an entry that also
\* gives a wirecount parses as well, into a Cable with that wirecount.
C16_ExplicitWirecount ==
  Parsed =>
     \A id \in ColoredEntries :
        /\ ("wirecount" \notin DOMAIN raw.data.cables[id] /\ result.ok) =>
              /\ result.val.cables[id].wirecount = Len(raw.data.cables[id].colors)
              /\ IndexedCores(result.val.cables[id], Len(raw.data.cables[id].colors))
        /\ ("wirecount" \in DOMAIN raw.data.cables[id]
              /\ TryParse(InferredInput(id), raw.path).res.ok) =>
              /\ result.ok
              /\ result.val.cables[id].wirecount = raw.data.cables[id].wirecount

\* C16, amended: every Cable parsed from an entry with n colors has n cores
\* indexed 0..n-1 and wirecount n; an explicit wirecount is the one used, so
\* an entry whose wirecount differs from n does not parse.
C16_WirecountInference ==
  Parsed =>
     \A id \in ColoredEntries :
        /\ result.ok =>
              /\ result.val.cables[id].wirecount = Len(raw.data.cables[id].colors)
              /\ IndexedCores(result.val.cables[id], Len(raw.data.cables[id].colors))
              /\ "wirecount" \in DOMAIN raw.data.cables[id] =>
                    result.val.cables[id].wirecount = raw.data.cables[id].wirecount
        /\ ("wirecount" \in DOMAIN raw.data.cables[id]
              /\ raw.data.cables[id].wirecount # Len(raw.data.cables[id].colors)) =>
              (~result.ok /\ result.err.type = "ParserError")

\* an explicit wirecount above the number of colors is rejected by the Cable
C16_Witness ==
  /\ Parsed /\ ~result.ok
  /\ "W1" \in ColoredEntries
  /\ Get(raw.data.cables["W1"], "wirecount", 0) = Len(raw.data.cables["W1"].colors) + 1
  /\ result.err.message = "Validation failed"
  /\ Len(result.err.details) = 1

\* C17: Connector(...) with a non-empty pinlabels list succeeds exactly when
\* len(pinlabels) = pincount (and pincount >= 1), every parsed Connector with
\* pin labels has as many labels as pins, and a connector entry without a
\* pincount key gets pincount len(pinlabels) if it has pin labels, else 1.
C17_PinLabelsCount ==
  /\ (Done /\ raw.kind = "connector" /\ raw.kw.pinlabels # <<>>) =>
        /\ result.ok <=> (raw.kw.pincount >= 1 /\ Len(raw.kw.pinlabels) = raw.kw.pincount)
        /\ result.ok => Len(result.val.pinlabels) = result.val.pincount
  /\ (Parsed /\ result.ok) =>
        \A id \in DOMAIN result.val.connectors :
           /\ result.val.connectors[id].pinlabels # <<>> =>
                 Len(result.val.connectors[id].pinlabels) = result.val.connectors[id].pincount
           /\ "pincount" \notin DOMAIN raw.data.connectors[id] =>
                 result.val.connectors[id].pincount
                   = IF Get(raw.data.connectors[id], "pinlabels", <<>>) # <<>>
                     THEN Len(raw.data.connectors[id].pinlabels) ELSE 1

\* a connector entry with pin labels and no pincount
C17_Witness ==
  /\ Parsed /\ result.ok
  /\ DOMAIN raw.data.connectors["J1"] = {"pinlabels", "mpn"}
  /\ Len(raw.data.connectors["J1"].pinlabels) = MaxPins
  /\ result.val.connectors["J1"].pincount = MaxPins

\* a pin is an integer of at least 1 or a string that is not a number
ProperPin(p) ==
  \/ IsInt(p) /\ p.int >= 1
  \/ IsStr(p) /\ p.str # "" /\ p.str \notin DOMAIN NumericStrings

\* the integer a pin argument stands for, 1 for one that stands for none
PinNumber(v) ==
  IF IsInt(v) THEN v.int
  ELSE IF v.str \in DOMAIN NumericStrings THEN NumericStrings[v.str] ELSE 1

\* C18: the pins of every constructed Connection are integers >= 1 or
\* non-numeric labels, a numeric string argument is stored as its integer,
\* and an integer or numeric string below 1 makes the construction fail.
C18_PinsNormalized ==
  (Done /\ raw.kind = "connection") =>
     /\ result.ok => (ProperPin(result.val.from_pin) /\ ProperPin(result.val.to_pin))
     /\ result.ok => \A f \in {"from_pin", "to_pin"} :
           (IsStr(raw.kw[f]) /\ raw.kw[f].str \in DOMAIN NumericStrings) =>
              result.val[f] = IntV(NumericStrings[raw.kw[f].str])
     /\ (PinNumber(raw.kw.from_pin) < 1 \/ PinNumber(raw.kw.to_pin) < 1) => ~result.ok

\* every connection of a document resolves in the document
Integrity(doc) ==
  \A i \in DOMAIN doc.connections : Resolves(doc.connections[i], doc.connectors, doc.cables)

\* C19: once a HarnessDocument is constructed no operation changes it or an
\* entity it owns (no appended or replaced entry, no assigned field, no
\* connection added to a group), so every connection of the document
\* resolves in every state after construction.
C19_Immutable ==
  /\ [](((pc \notin {"start", "done"}) /\ raw.kind \in {"yaml", "objects"} /\ result.ok)
          => Integrity(result.val))
  /\ [][pc = "done" => (result' = result /\ group' = group)]_vars

\* the part numbers among the connectors, cables, accessories and parts
PartNumbers(doc) ==
  { doc.connectors[id].primary_pn : id \in DOMAIN doc.connectors }
  \cup { doc.cables[id].primary_pn : id \in DOMAIN doc.cables }
  \cup { doc.accessories[i].part.primary_pn : i \in DOMAIN doc.accessories }
  \cup { doc.parts[id].primary_pn : id \in DOMAIN doc.parts }

\* C20: the extracted BOM has exactly one row per distinct primary_pn of
\* the document's connectors, cables, accessories and parts, in strictly
\* ascending order of part number, numbered 1..n in that order.
C20_BomRows ==
  pc = "bom" =>
     /\ { bom[i].part_number : i \in DOMAIN bom } = PartNumbers(result.val)
     /\ Len(bom) = Cardinality(PartNumbers(result.val))
     /\ \A i \in DOMAIN bom : bom[i].item_number = i
     /\ \A i \in 1..(Len(bom) - 1) : StrLess(bom[i].part_number, bom[i + 1].part_number)

\* a BOM whose first row was seen last and in which two connectors share a
\* row
C20_Witness ==
  /\ pc = "bom"
  /\ Len(bom) = 3
  /\ bom[1].part_number = "P1" /\ bom[1].category = "cable"
  /\ bom[2].reference = "J1, J2" /\ bom[2].quantity = 20

RECURSIVE SumSeq(_)
\* the sum of a sequence of numbers
SumSeq(q) == IF q = <<>> THEN 0 ELSE Head(q) + SumSeq(Tail(q))

\* the ids of a mapping of components, in its order, that have part number pn
IdsWith(components, pn) ==
  SelectSeq(Keys(components), LAMBDA id : components[id].primary_pn = pn)

\* the contributions to part number pn: 1 per connector, length.value per
\* cable, quantity.value per accessory (in tenths)
Contributions(doc, pn) ==
  [i \in DOMAIN IdsWith(doc.connectors, pn) |-> 10]
  \o [i \in DOMAIN IdsWith(doc.cables, pn) |-> doc.cables[IdsWith(doc.cables, pn)[i]].length.value]
  \o [i \in DOMAIN SelectSeq(doc.accessories, LAMBDA a : a.part.primary_pn = pn) |->
        SelectSeq(doc.accessories, LAMBDA a : a.part.primary_pn = pn)[i].quantity.value]

\* C21: a BOM row for a part number that some connector, cable or accessory
\* has carries the sum of their contributions as quantity and the ids of
\* those connectors and cables, in first-seen order, joined by ", " as
\* reference.
C21_SummedQuantities ==
  pc = "bom" =>
     \A i \in DOMAIN bom :
        Contributions(result.val, bom[i].part_number) # <<>> =>
           /\ bom[i].quantity = SumSeq(Contributions(result.val, bom[i].part_number))
           /\ bom[i].reference
                = Join(IdsWith(result.val.connectors, bom[i].part_number)
                       \o IdsWith(result.val.cables, bom[i].part_number))

\* two cables of lengths 2.5 and 1.0 under one part number
C21_Witness ==
  /\ pc = "bom"
  /\ \E i \in DOMAIN bom :
        /\ bom[i].reference = "W1, W2"
        /\ bom[i].quantity = 35
        /\ result.val.cables["W1"].length.value = 25
        /\ result.val.cables["W2"].length.value = 10

\* C22: in the BOM of a parsed document, the row of a cable whose entry has
\* no length key and that shares its part number with no other component
\* has quantity 1.
C22_NoLengthCountsOne ==
  (pc = "bom" /\ raw.kind = "yaml") =>
     \A id \in DOMAIN result.val.cables :
        ("length" \notin DOMAIN raw.data.cables[id]
           /\ Len(Contributions(result.val, result.val.cables[id].primary_pn)) = 1) =>
              \A i \in DOMAIN bom :
                 bom[i].part_number = result.val.cables[id].primary_pn => bom[i].quantity = 10

\* the library parts that a connector or cable entry of the input references
ReferencedParts ==
  { ReferenceOf(raw.data.connectors[id]) : id \in ResolvedEntries(raw.data.connectors) }
  \cup { ReferenceOf(raw.data.cables[id]) : id \in ResolvedEntries(raw.data.cables) }

\* the rows of the BOM that come from the generic parts table
PartRows == { i \in DOMAIN bom : bom[i].category = "part" }

\* C23: in the BOM of a parsed document no row of category 'part' is the
\* row of a library part that a connector or cable references; every row
\* of category 'part' has quantity 1 and a part number that no connector,
\* cable or accessory has.
C23_NoReemission ==
  (pc = "bom" /\ raw.kind = "yaml") =>
     /\ \A id \in ReferencedParts :
           \A i \in PartRows : bom[i].part_number # result.val.parts[id].primary_pn
     /\ \A i \in PartRows :
           /\ bom[i].quantity = 10
           /\ Contributions(result.val, bom[i].part_number) = <<>>

\* the Cores of the connection's cable with the connection's core index
CoresAt(doc, conn) ==
  { c \in { doc.cables[conn.cable].cores[i] : i \in DOMAIN doc.cables[conn.cable].cores } :
      c.index = conn.core }

\* the labels of those Cores: empty when there is no such Core or it has no
\* label
CoreLabelOf(doc, conn) ==
  { c.label : c \in { d \in CoresAt(doc, conn) : d.label # None } }

\* C24: the wiring table has one row per Connection, in order; the label of
\* a row is the wire_label, else the label of the Core with the
\* connection's core index, else the signal_name, else empty; color and
\* pair_group are that Core's and empty when there is no such Core.
C24_WiringTableRows ==
  pc = "wiring_table" =>
     /\ Len(returned) = Len(result.val.connections)
     /\ \A i \in DOMAIN returned :
          /\ returned[i].from_connector = result.val.connections[i].from_connector
          /\ returned[i].to_connector = result.val.connections[i].to_connector
          /\ returned[i].cable = result.val.connections[i].cable
          /\ returned[i].core = result.val.connections[i].core + 1
          /\ returned[i].label
               = IF result.val.connections[i].wire_label # None
                 THEN result.val.connections[i].wire_label
                 ELSE IF CoreLabelOf(result.val, result.val.connections[i]) # {}
                 THEN CHOOSE l \in CoreLabelOf(result.val, result.val.connections[i]) : TRUE
                 ELSE IF result.val.connections[i].signal_name # None
                 THEN result.val.connections[i].signal_name
                 ELSE ""
          /\ CoresAt(result.val, result.val.connections[i]) = {} =>
                (returned[i].color = "" /\ returned[i].pair_group = "")
          /\ \A c \in CoresAt(result.val, result.val.connections[i]) :
                /\ returned[i].color = c.color.display_color
                /\ returned[i].pair_group = (IF c.pair_group = None THEN "" ELSE c.pair_group)

\* two rows: one labelled by the connection's wire_label over a labelled
\* Core, one by the signal_name on a Core without a label
C24_Witness ==
  /\ pc = "wiring_table"
  /\ Len(returned) = 2
  /\ result.val.cables["W1"].cores # <<>>
  /\ result.val.connections[1].core = 1
  /\ result.val.connections[1].wire_label = None
  /\ returned[1].label = "SIG"
  /\ result.val.connections[2].core = 0
  /\ returned[2].label = "WL"
  /\ returned[2].pair_group = "1"

\* the document that parsing or construction produced for the input
Produced ==
  IF raw.kind = "yaml" THEN parse_harness_yaml(raw.data, raw.path).res
  ELSE HarnessDocument(raw.kw)

\* the cables that no connection uses
IdleCables(doc) ==
  { id \in DOMAIN doc.cables : \A i \in DOMAIN doc.connections : doc.connections[i].cable # id }

\* the connectors that are at neither end of any connection
IdleConnectors(doc) ==
  { id \in DOMAIN doc.connectors :
      \A i \in DOMAIN doc.connections :
         doc.connections[i].from_connector # id /\ doc.connections[i].to_connector # id }

\* the indices of range(wirecount) that no connection on the cable references
IdleCores(doc, id) ==
  { k \in 0..(doc.cables[id].wirecount - 1) :
      \A i \in DOMAIN doc.connections :
         ~(doc.connections[i].cable = id /\ doc.connections[i].core = k) }

\* the cables with at least one such index
PartlyIdleCables(doc) == { id \in DOMAIN doc.cables : IdleCores(doc, id) # {} }

\* the warnings as a set
Warnings == { returned[i] : i \in DOMAIN returned }

\* C25: validate_complete returns a list and leaves the document as it was
\* produced; the list has one warning per cable without connections, per
\* connector without connections and per cable with an unreferenced index
\* of range(wirecount), and nothing else, so it is empty exactly when
\* there is no such cable or connector.
C25_CompletenessWarnings ==
  pc = "validated" =>
     /\ result = Produced
     /\ \A id \in IdleCables(result.val) :
           ("Cable '" \o id \o "' has no connections") \in Warnings
     /\ \A id \in IdleConnectors(result.val) :
           ("Connector '" \o id \o "' has no connections") \in Warnings
     /\ \A id \in PartlyIdleCables(result.val) :
           \E w \in Warnings :
              w = UnusedCoresIssue(id, UnusedCores(result.val.cables[id].wirecount,
                                                   (0..(result.val.cables[id].wirecount - 1))
                                                     \ IdleCores(result.val, id)))
     /\ Len(returned) = Cardinality(IdleCables(result.val))
                        + Cardinality(IdleConnectors(result.val))
                        + Cardinality(PartlyIdleCables(result.val))
     /\ Cardinality(Warnings) = Len(returned)
     /\ returned = <<>> <=>
           (IdleCables(result.val) = {} /\ IdleConnectors(result.val) = {}
              /\ PartlyIdleCables(result.val) = {})

\* a document with connections and an idle cable, which gets two warnings
C25_Witness ==
  /\ pc = "validated"
  /\ result.val.connections # <<>>
  /\ "Cable 'W2' has no connections" \in Warnings
  /\ \E i \in DOMAIN returned : returned[i] = "Cable 'W1' has unused cores: [1]"
  /\ Len(returned) = 3

\* a colour string has been parsed and accepted
ColorParsed == raw.kind = "color" /\ pc \in {"done", "reparsed"} /\ result.ok

\* C26: for every input that ColorSpec.parse accepts, parsing the string form
\* of the result gives a ColorSpec with the same display_color, base_color
\* and stripe_color
C26_ParseIdempotent ==
  (raw.kind = "color" /\ pc = "reparsed") =>
     /\ returned.ok
     /\ returned.val.display_color = result.val.display_color
     /\ returned.val.base_color = result.val.base_color
     /\ returned.val.stripe_color = result.val.stripe_color

\* a lower-case hyphenated string with surrounding blanks has been parsed twice
C26_Witness ==
  /\ raw.kind = "color" /\ pc = "reparsed"
  /\ raw.color_str # result.val.display_color
  /\ result.val.stripe_color # NoneSeq
  /\ returned = result

\* the trimmed upper-cased input of the parsed colour
Trimmed == Upper(Strip(raw.color_str))

\* position of the first hyphen of s
FirstHyphen(s) == CHOOSE k \in 1..Len(s) : s[k] = "-" /\ \A j \in 1..(k - 1) : s[j] # "-"

\* the text before the first hyphen of s
BeforeHyphen(s) == [i \in 1..(FirstHyphen(s) - 1) |-> s[i]]

\* the text after the first hyphen of s
AfterHyphen(s) == [i \in 1..(Len(s) - FirstHyphen(s)) |-> s[FirstHyphen(s) + i]]

\* the second hyphen-separated token of s
SecondToken(s) ==
  IF \E k \in 1..Len(AfterHyphen(s)) : AfterHyphen(s)[k] = "-"
  THEN BeforeHyphen(AfterHyphen(s)) ELSE AfterHyphen(s)

Hyphenated(s) == \E k \in 1..Len(s) : s[k] = "-"

TwoLettersDigits(s) ==
  /\ Len(s) >= 3
  /\ \A i \in 1..2 : s[i] \in Letters
  /\ \A i \in 3..Len(s) : s[i] \in Digits

TwoCodes(s) ==
  /\ Len(s) = 4
  /\ <<s[1], s[2]>> \in STANDARD_COLOR_CODES
  /\ <<s[3], s[4]>> \in STANDARD_COLOR_CODES

\* what the five rules give for s when the hyphen-separated tokens are taken
\* through the conversion trim
RuleResult(s, trim(_)) ==
  IF Hyphenated(s) THEN [base |-> trim(BeforeHyphen(s)), stripe |-> trim(SecondToken(s))]
  ELSE IF TwoLettersDigits(s) THEN [base |-> <<s[1], s[2]>>, stripe |-> NoneSeq]
  ELSE IF TwoCodes(s) THEN [base |-> <<s[1], s[2]>>, stripe |-> <<s[3], s[4]>>]
  ELSE [base |-> s, stripe |-> NoneSeq]

AsWritten(s) == s

\* the three documented examples
ColorScenario ==
  /\ raw.color_str \in {<<"B", "U", "-", "W", "H">>, <<"B", "U", "W", "H">>} =>
        result.val.base_color = <<"B", "U">> /\ result.val.stripe_color = <<"W", "H">>
  /\ raw.color_str = <<"B", "K">> =>
        result.val.base_color = <<"B", "K">> /\ result.val.stripe_color = NoneSeq

\* C27 as stated: on the trimmed upper-cased input the first matching rule
\* decides; a string with a hyphen gives base = the text before the first
\* hyphen and stripe = the second hyphen-separated token, two letters and
\* digits give the two letters, two standard codes give the two halves, any
\* other string is the base with no stripe
C27_RuleOrder ==
  ColorParsed =>
     /\ result.val.base_color = RuleResult(Trimmed, AsWritten).base
     /\ result.val.stripe_color = RuleResult(Trimmed, AsWritten).stripe
     /\ ColorScenario

\* C27 amended: as stated, with the base and the stripe of a hyphenated
\* string stripped of surrounding whitespace
C27_RuleOrderStripped ==
  ColorParsed =>
     /\ result.val.base_color = RuleResult(Trimmed, Strip).base
     /\ result.val.stripe_color = RuleResult(Trimmed, Strip).stripe
     /\ ColorScenario

\* a hyphenated string with blanks around the hyphen has been parsed
C27_Witness ==
  /\ ColorParsed
  /\ raw.color_str = <<" ", "B", "U", " ", "-", " ", "W", "H", " ">>
  /\ result.val.base_color = <<"B", "U">>
  /\ result.val.stripe_color = <<"W", "H">>

\* the list of the k-th mapping of a group of three single-key mappings
ListAt(g, k) == g.list[k].map[1].val.list

\* the length of the shortest of the three lists of a group
Shortest(g) ==
  CHOOSE n \in 0..Len(ListAt(g, 1)) :
     /\ \A k \in 1..3 : n <= Len(ListAt(g, k))
     /\ \E k \in 1..3 : n = Len(ListAt(g, k))

\* a group [{F: fp}, X, Y] of three single-key mappings with list values,
\* exactly one of X, Y naming a parsed cable; up to the end of the shortest
\* list the cores are 1-based numbers and the pins valid
Pairable(g, cables) ==
  /\ IsList(g) /\ Len(g.list) = 3
  /\ \A k \in 1..3 : /\ IsMap(g.list[k]) /\ Len(g.list[k].map) = 1
                     /\ IsList(g.list[k].map[1].val)
  /\ (g.list[2].map[1].key \in DOMAIN cables) # (g.list[3].map[1].key \in DOMAIN cables)
  /\ \A i \in 1..Shortest(g) :
       /\ ValidPin(ListAt(g, 1)[i])
       /\ ValidPin(ListAt(g, 5 - CableSide(g, cables))[i])
       /\ IsInt(ListAt(g, CableSide(g, cables))[i])
       /\ ListAt(g, CableSide(g, cables))[i].int >= 1

\* (F, fp[i], C, cs[i]-1, T, tp[i]) for i up to the end of the shortest list
PairedTuples(g, cables) ==
  [i \in 1..Shortest(g) |->
     <<g.list[1].map[1].key, ListAt(g, 1)[i],
       g.list[CableSide(g, cables)].map[1].key, ListAt(g, CableSide(g, cables))[i].int - 1,
       g.list[5 - CableSide(g, cables)].map[1].key, ListAt(g, 5 - CableSide(g, cables))[i]>>]

\* C28: in the connections path a group whose from-pin, core and to-pin
\* lists have lengths a, b and c yields exactly min(a, b, c) Connections,
\* pairing the lists position by position; the entries beyond the shortest
\* list produce no Connection and no error
C28_ShortestList ==
  ( /\ NativePath /\ raw.data.connections # <<>>
    /\ \A k \in DOMAIN raw.data.connections : Pairable(raw.data.connections[k], ParsedCables) ) =>
     /\ derived.ok
     /\ TupleSeq(derived.val)
          = Flatten([k \in DOMAIN raw.data.connections |->
                       PairedTuples(raw.data.connections[k], ParsedCables)])

\* a group whose lists have different lengths, with entries beyond the
\* shortest list that no Connection could hold, has been derived
C28_Witness ==
  /\ NativePath /\ derived.ok
  /\ \A k \in DOMAIN raw.data.connections : Pairable(raw.data.connections[k], ParsedCables)
  /\ Len(raw.data.connections) >= 1
  /\ Shortest(raw.data.connections[1]) = 1
  /\ Len(ListAt(raw.data.connections[1], 2)) = 2
  /\ ~IsInt(ListAt(raw.data.connections[1], 2)[2])
  /\ Len(derived.val) >= 1
  /\ derived.val[1].core = 0

\* entries i and j of a connection_info list differ only in their core number
DifferOnlyInCore(L, i, j) ==
  /\ L[i].core # L[j].core
  /\ [k \in DOMAIN L[i] \ {"core"} |-> L[i][k]] = [k \in DOMAIN L[j] \ {"core"} |-> L[j][k]]

\* C29: the 1-based to 0-based core conversion of the connection_info path
\* is injective on the inputs it accepts: two entries that differ only in
\* their core number never yield Connections with the same core index, and
\* an entry with core 0 is rejected, as core 0 is in the connections path
C29_CoreConversionInjective ==
  (InfoPath /\ derived.ok) =>
     /\ \A i, j \in DOMAIN raw.data.connection_info :
          DifferOnlyInCore(raw.data.connection_info, i, j) =>
             derived.val[i].core # derived.val[j].core
     /\ \A i \in DOMAIN raw.data.connection_info :
          raw.data.connection_info[i].core # IntV(0)

\* how many entries of the sequence q are x
Occurrences(q, x) == Cardinality({i \in DOMAIN q : q[i] = x})

\* C30: for every valid HarnessDocument the groups that _build_connections
\* returns, fed through _derive_connections_from_wireviz with the cables of
\* the document, yield the same multiset of (from_connector, from_pin,
\* cable, core, to_connector, to_pin) tuples as document.connections
C30_GeneratorRoundTrip ==
  pc = "rederived" =>
     /\ derived.ok
     /\ Len(derived.val) = Len(result.val.connections)
     /\ \A i \in DOMAIN result.val.connections :
          Occurrences(TupleSeq(derived.val), Tuple(result.val.connections[i]))
            = Occurrences(TupleSeq(result.val.connections), Tuple(result.val.connections[i]))

====
